---- MODULE Spec2Model ----
(***************************************************************************)
(* A model of the command pipeline of mcp-example-client: the application  *)
(* state reducer (history / favorites / connection), the command executor, *)
(* the HTTP transport client it drives, the terminal's connect handler and *)
(* the reconnecting WebSocket client.                                      *)
(*                                                                         *)
(* Each component has its own specification (SpecStore, SpecExec, ...);    *)
(* a specification leaves the variables of the other components unchanged. *)
(***************************************************************************)
EXTENDS Integers, Sequences, FiniteSets, TLC

VARIABLES
  state,        \* AppState held by useReducer(appReducer, ...)
  nextId,       \* source of fresh history ids (uuidv4)
  appendLog,    \* history variable: ids appended since the history was last empty
  onlyAppends,  \* history variable: only appends (and toggles) happened since then
  apiClient,    \* MCPApiClient singleton: [baseUrl, apiKey]
  now,          \* Date.now(), non-decreasing
  pc,           \* executeCommand: "idle", "awaiting", "returned" or "threw"
  input,        \* history variable: the arguments executeCommand was called with
  argCommand,   \* content of the command object that was passed in
  command,      \* executeCommand's local `command`
  startTime,    \* executeCommand's local `startTime`
  calls,        \* transport calls issued by the current executeCommand
  outcome,      \* history variable: how the awaited transport call ended
  ret,          \* the value the promise of executeCommand resolved to
  term,         \* TerminalContainer.handleCommand: position, locals, local item
  effectPending, \* AppProvider's [serverUrl, apiKey] effect has yet to run
  ws,           \* WebSocketClient: its fields, the sockets and timers it created
  explicitlyDisconnected, \* history variable: disconnect() was the last user call
  autoAttempts, \* history variable: sockets created by the reconnect timer
                \* since the last open or connect() by the user
  delays,       \* history variable: delays scheduled since the counter was reset
  wsEvent,      \* history variable: the last WebSocketClient method or handler run
  connTest,         \* AppProvider.testConnection: position, probe outcome, return value
  tabs,         \* per terminal tab: position and locals of handleCommand
  parser,       \* parseCommand / formatCommandString: the call in progress
  hooks         \* the API hooks' calls in flight

varsStore == <<state, nextId, appendLog, onlyAppends>>

varsExec == <<apiClient, now, pc, input, argCommand, command, startTime, calls,
              outcome, ret>>

varsTerm == <<term, effectPending>>

varsWS == <<ws, explicitlyDisconnected, autoAttempts, delays, wsEvent>>

varsConn == <<connTest>>

varsTabs == <<tabs>>

varsUtil == <<parser, hooks>>

\* what the actions of one component leave alone
notStore == <<varsExec, varsTerm, varsWS, varsConn, varsTabs, varsUtil>>

notExec == <<varsStore, varsTerm, varsWS, varsConn, varsTabs, varsUtil>>

\* the terminal's handlers dispatch on `state` and reconfigure `apiClient`
notTerm == <<nextId, appendLog, onlyAppends, now, pc, input, argCommand, command,
             startTime, calls, outcome, ret, varsWS, varsConn, varsTabs, varsUtil>>

notWS == <<varsStore, varsExec, varsTerm, varsConn, varsTabs, varsUtil>>

----------------------------------------------------------------------------
(* Bounds of the model *)

MaxCap == 3       \* largest settings.maxHistoryItems explored
MaxItems == 4     \* number of history items ever created in one run
MaxClock == 2     \* the clock stops advancing at this value
MaxOrphans == 2   \* sockets alive at once that the client no longer references
MaxOrphanTimers == 1  \* pending timers the client no longer references
MaxAuto == 6      \* timer-made sockets counted without an open in between
MaxFavorites == 2 \* favorites held at once

----------------------------------------------------------------------------
(* Generic helpers *)

Min(a, b) == IF a <= b THEN a ELSE b

\* Array.prototype.slice(0, n) for n >= 0
SliceTo(s, n) == SubSeq(s, 1, Min(n, Len(s)))

\* sub occurs in s as a run of consecutive elements
IsInfix(sub, s) ==
  \E k \in 0..(Len(s) - Len(sub)) : \A i \in 1..Len(sub) : s[k + i] = sub[i]

Count(s, x) == Cardinality({i \in 1..Len(s) : s[i] = x})

----------------------------------------------------------------------------
(* The application state and its reducer (context/AppContext.tsx) *)

Urls == {"u0", "u1"}
Keys == {"k0", "k1"}
NoError == "undefined"

initialState ==
  [ connection |-> [serverUrl |-> "u0", apiKey |-> "k0", connected |-> FALSE,
                    error |-> NoError],
    history |-> <<>>,
    favorites |-> <<>>,
    settings |-> [maxHistoryItems |-> MaxCap],
    protocol |-> <<>>,
    isLoading |-> FALSE ]

\* SET_CONNECTION: { ...state.connection, ...action.payload }.  The payload
\* is a partial record: only the fields in its domain are overwritten.
MergeConnection(conn, payload) ==
  [f \in DOMAIN conn |-> IF f \in DOMAIN payload THEN payload[f] ELSE conn[f]]

\* Mutant: the new item is appended at the tail before truncation.
AddHistoryItem_tail(st, payload) ==
  [st EXCEPT !.history =
     SliceTo(st.history \o <<payload>>, st.settings.maxHistoryItems)]

\* case 'ADD_HISTORY_ITEM'
AddHistoryItem(st, payload) ==
  [st EXCEPT !.history =
     SliceTo(<<payload>> \o st.history, st.settings.maxHistoryItems)]

\* Mutant: the matching entry is marked as a favorite instead of being flipped.
ToggleItem_marks(item, id) ==
  IF item.id = id THEN [item EXCEPT !.favorite = TRUE] ELSE item

\* case 'TOGGLE_FAVORITE'
ToggleItem(item, id) ==
  IF item.id = id THEN [item EXCEPT !.favorite = ~item.favorite] ELSE item

ToggleFavorite(st, id) ==
  [st EXCEPT !.history = [i \in 1..Len(st.history) |-> ToggleItem(st.history[i], id)]]

\* case 'REMOVE_HISTORY_ITEM'
RECURSIVE WithoutId(_, _)
WithoutId(s, id) ==
  IF s = <<>> THEN <<>>
  ELSE IF Head(s).id # id THEN <<Head(s)>> \o WithoutId(Tail(s), id)
       ELSE WithoutId(Tail(s), id)

appReducer(st, action) ==
  CASE action.type = "SET_CONNECTION" ->
         [st EXCEPT !.connection = MergeConnection(st.connection, action.payload)]
    [] action.type = "SET_CONNECTION_ERROR" ->
         [st EXCEPT !.connection.connected = FALSE,
                    !.connection.error = action.payload]
    [] action.type = "CLEAR_CONNECTION_ERROR" ->
         [st EXCEPT !.connection.error = NoError]
    [] action.type = "ADD_HISTORY_ITEM" -> AddHistoryItem(st, action.payload)
    [] action.type = "CLEAR_HISTORY" -> [st EXCEPT !.history = <<>>]
    [] action.type = "TOGGLE_FAVORITE" -> ToggleFavorite(st, action.payload)
    [] action.type = "REMOVE_HISTORY_ITEM" ->
         [st EXCEPT !.history = WithoutId(st.history, action.payload)]
    [] action.type = "ADD_FAVORITE" ->
         [st EXCEPT !.favorites = st.favorites \o <<action.payload>>]
    [] action.type = "REMOVE_FAVORITE" ->
         [st EXCEPT !.favorites = WithoutId(st.favorites, action.payload)]
    [] action.type = "UPDATE_FAVORITE" ->
         [st EXCEPT !.favorites =
            [i \in 1..Len(st.favorites) |->
               IF st.favorites[i].id = action.payload.id THEN action.payload
               ELSE st.favorites[i]]]
    [] action.type = "UPDATE_SETTINGS" ->
         [st EXCEPT !.settings =
            [f \in DOMAIN st.settings |->
               IF f \in DOMAIN action.payload THEN action.payload[f]
               ELSE st.settings[f]]]
    [] action.type = "ADD_PROTOCOL_STEP" ->
         [st EXCEPT !.protocol = st.protocol \o <<action.payload>>]
    [] action.type = "CLEAR_PROTOCOL_STEPS" -> [st EXCEPT !.protocol = <<>>]
    [] action.type = "SET_LOADING" -> [st EXCEPT !.isLoading = action.payload]
    [] OTHER -> st

----------------------------------------------------------------------------
(* JSON values, as JSON.parse produces them.  A number is kept in halves
   (h = 2 * value) so that 2.5 is representable; a string carries its length. *)

Num(h) == [t |-> "number", h |-> h]
Str(s, len) == [t |-> "string", s |-> s, len |-> len]
Arr(len) == [t |-> "array", len |-> len]
Obj(props) == [t |-> "object", props |-> props]
JsonNull == [t |-> "null"]
EmptyObject == Obj(<<>>)

\* JavaScript truthiness of a JSON value
Truthy(v) ==
  CASE v.t = "null" -> FALSE
    [] v.t = "number" -> v.h # 0
    [] v.t = "string" -> v.len # 0
    [] v.t = "boolean" -> v.b
    [] OTHER -> TRUE

\* `name in value` throws a TypeError unless value is an object (or array)
InThrows(v) == v.t \notin {"object", "array"}

InOp(name, v) == v.t = "object" /\ name \in DOMAIN v.props

\* Number.isInteger
IsInteger(v) == v.t = "number" /\ v.h % 2 = 0

\* new RegExp(pattern): the patterns of the model and the strings they match
InvalidPattern == "("
RegExpMatches == {<<"^x", "x">>}
RegExpThrows(pattern) == pattern = InvalidPattern
RegExpTest(pattern, s) == <<pattern, s>> \in RegExpMatches

----------------------------------------------------------------------------
(* validateParameters / validateCommand (utils/commandParser.ts) *)

\* A message is a sequence of text fragments; `${x}` is a fragment of its own.
RECURSIVE Join(_, _)
Join(msgs, sep) ==
  IF msgs = <<>> THEN <<>>
  ELSE IF Len(msgs) = 1 THEN msgs[1]
  ELSE msgs[1] \o <<sep>> \o Join(Tail(msgs), sep)

\* the type check of one declared type against a value (the switch)
TypeMatches(type, value) ==
  CASE type = "string" -> value.t = "string"
    [] type = "number" -> value.t = "number"
    [] type = "integer" -> value.t = "number" /\ IsInteger(value)
    [] type = "boolean" -> value.t = "boolean"
    [] type = "object" -> value.t = "object"
    [] type = "array" -> value.t = "array"
    [] type = "null" -> value.t = "null"
    [] OTHER -> FALSE

\* for (const type of types) { ...; if (typeValid) break; }
RECURSIVE TypeValid(_, _)
TypeValid(types, value) ==
  IF types = <<>> THEN FALSE
  ELSE IF TypeMatches(Head(types), value) THEN TRUE
  ELSE TypeValid(Tail(types), value)

\* propSchema.type === 'string' and the like: true of a scalar type only
TypeIs(ps, type) ==
  "type" \in DOMAIN ps /\ ~ps.type.list /\ ps.type.ts = <<type>>

TypeErrors(name, ps, value) ==
  IF "type" \in DOMAIN ps /\ ~TypeValid(ps.type.ts, value)
  THEN << <<"Invalid type for parameter ", name, ". Expected ">>
            \o Join([i \in 1..Len(ps.type.ts) |-> <<ps.type.ts[i]>>], " or ")
            \o <<".">> >>
  ELSE <<>>

StringApplies(ps, value) == TypeIs(ps, "string") /\ value.t = "string"

StringErrors(name, ps, value) ==
  IF ~StringApplies(ps, value) THEN <<>>
  ELSE
    (IF "minLength" \in DOMAIN ps /\ value.len < ps.minLength
     THEN << <<"Parameter ", name, " is too short. Minimum length: ",
               ToString(ps.minLength), ".">> >>
     ELSE <<>>)
    \o
    (IF "maxLength" \in DOMAIN ps /\ value.len > ps.maxLength
     THEN << <<"Parameter ", name, " is too long. Maximum length: ",
               ToString(ps.maxLength), ".">> >>
     ELSE <<>>)
    \o
    (IF "pattern" \in DOMAIN ps /\ ~RegExpThrows(ps.pattern)
        /\ ~RegExpTest(ps.pattern, value.s)
     THEN << <<"Parameter ", name, " does not match required pattern.">> >>
     ELSE <<>>)

\* new RegExp(propSchema.pattern) is reached and throws a SyntaxError
PatternThrows(ps, value) ==
  StringApplies(ps, value) /\ "pattern" \in DOMAIN ps /\ RegExpThrows(ps.pattern)

NumberErrors(name, ps, value) ==
  IF ~((TypeIs(ps, "number") \/ TypeIs(ps, "integer")) /\ value.t = "number")
  THEN <<>>
  ELSE
    (IF "minimum" \in DOMAIN ps /\ value.h < 2 * ps.minimum
     THEN << <<"Parameter ", name, " is too small. Minimum value: ",
               ToString(ps.minimum), ".">> >>
     ELSE <<>>)
    \o
    (IF "maximum" \in DOMAIN ps /\ value.h > 2 * ps.maximum
     THEN << <<"Parameter ", name, " is too large. Maximum value: ",
               ToString(ps.maximum), ".">> >>
     ELSE <<>>)

ArrayErrors(name, ps, value) ==
  IF ~(TypeIs(ps, "array") /\ value.t = "array") THEN <<>>
  ELSE
    (IF "minItems" \in DOMAIN ps /\ value.len < ps.minItems
     THEN << <<"Array ", name, " has too few items. Minimum: ",
               ToString(ps.minItems), ".">> >>
     ELSE <<>>)
    \o
    (IF "maxItems" \in DOMAIN ps /\ value.len > ps.maxItems
     THEN << <<"Array ", name, " has too many items. Maximum: ",
               ToString(ps.maxItems), ".">> >>
     ELSE <<>>)

\* the loop over schema.required
RECURSIVE RequiredErrors(_, _)
RequiredErrors(required, parameters) ==
  IF required = <<>> THEN <<>>
  ELSE (IF InOp(Head(required), parameters) THEN <<>>
        ELSE << <<"Missing required parameter: ", Head(required)>> >>)
       \o RequiredErrors(Tail(required), parameters)

\* the loop over Object.entries(schema.properties); a property is a pair
\* [name, schema].  The result is [threw, errors]: an exception ends the loop.
RECURSIVE PropertyErrors(_, _)
PropertyErrors(properties, parameters) ==
  IF properties = <<>> THEN [threw |-> FALSE, errors |-> <<>>]
  ELSE
    LET name == Head(properties).name
        ps == Head(properties).schema IN
      IF ~InOp(name, parameters) THEN PropertyErrors(Tail(properties), parameters)
      ELSE
        LET value == parameters.props[name] IN
          IF PatternThrows(ps, value) THEN [threw |-> TRUE, errors |-> <<>>]
          ELSE
            LET rest == PropertyErrors(Tail(properties), parameters) IN
              [threw |-> rest.threw,
               errors |-> TypeErrors(name, ps, value) \o StringErrors(name, ps, value)
                          \o NumberErrors(name, ps, value)
                          \o ArrayErrors(name, ps, value) \o rest.errors]

SchemaRequired(schema) == IF "required" \in DOMAIN schema THEN schema.required ELSE <<>>

SchemaProperties(schema) ==
  IF "properties" \in DOMAIN schema THEN schema.properties ELSE <<>>

\* Returns [threw |-> TRUE] when an exception leaves the function, and
\* [threw |-> FALSE, valid, errors] otherwise.
validateParameters(parameters, schema) ==
  LET req == RequiredErrors(SchemaRequired(schema), parameters)
      props == PropertyErrors(SchemaProperties(schema), parameters)
      all == req \o props.errors IN
    IF InThrows(parameters) /\ (SchemaRequired(schema) # <<>> \/ SchemaProperties(schema) # <<>>)
    THEN [threw |-> TRUE]
    ELSE IF props.threw THEN [threw |-> TRUE]
    ELSE [threw |-> FALSE, valid |-> all = <<>>, errors |-> all]

HasParameters(cmd) ==
  "parameters" \in DOMAIN cmd /\ Truthy(cmd.parameters)

\* record update { ...r, f: v } that may add the field
With(r, f, v) == [g \in DOMAIN r \cup {f} |-> IF g = f THEN v ELSE r[g]]

\* Mutant: only the first validator error is surfaced.
validateCommand_firstError(cmd, functionDef) ==
  IF ~HasParameters(cmd) THEN [threw |-> FALSE, ret |-> cmd, arg |-> cmd]
  ELSE
    LET validation == validateParameters(cmd.parameters, functionDef.parameters) IN
      IF validation.threw THEN [threw |-> TRUE, arg |-> cmd]
      ELSE IF ~validation.valid
      THEN [threw |-> FALSE,
            ret |-> With(With(cmd, "valid", FALSE), "error",
                         <<"Parameter validation failed: ">> \o validation.errors[1]),
            arg |-> cmd]
      ELSE [threw |-> FALSE, ret |-> cmd, arg |-> cmd]

\* Returns [threw, ret, arg]: ret is the command returned, arg the content of
\* the object that was passed in once the call is over (the code builds a
\* copy, so arg is the command as passed).
validateCommand(cmd, functionDef) ==
  IF ~HasParameters(cmd) THEN [threw |-> FALSE, ret |-> cmd, arg |-> cmd]
  ELSE
    LET validation == validateParameters(cmd.parameters, functionDef.parameters) IN
      IF validation.threw THEN [threw |-> TRUE, arg |-> cmd]
      ELSE IF ~validation.valid
      THEN [threw |-> FALSE,
            ret |-> With(With(cmd, "valid", FALSE), "error",
                         <<"Parameter validation failed: ">>
                           \o Join(validation.errors, "; ")),
            arg |-> cmd]
      ELSE [threw |-> FALSE, ret |-> cmd, arg |-> cmd]

----------------------------------------------------------------------------
(* executeCommand (utils/commandExecutor.ts) *)

CommandHelp == <<"Available commands: ...">>

\* JSON.stringify of a JSON value; the members of an object in the order
\* of PropOrder
PropOrder == <<"a", "n", "url", "apiKey">>

StringifyNumber(h) ==
  IF h % 2 = 0 THEN ToString(h \div 2) ELSE ToString(h \div 2) \o ".5"

RECURSIVE Stringify(_)
RECURSIVE StringifyMembers(_, _, _)
StringifyMembers(props, names, first) ==
  IF names = <<>> THEN ""
  ELSE IF Head(names) \notin DOMAIN props
  THEN StringifyMembers(props, Tail(names), first)
  ELSE (IF first THEN "" ELSE ",") \o "\"" \o Head(names) \o "\":"
       \o Stringify(props[Head(names)])
       \o StringifyMembers(props, Tail(names), FALSE)

Stringify(v) ==
  CASE v.t = "number" -> StringifyNumber(v.h)
    [] v.t = "string" -> "\"" \o v.s \o "\""
    [] v.t = "boolean" -> IF v.b THEN "true" ELSE "false"
    [] v.t = "null" -> "null"
    [] v.t = "array" -> "[]"
    [] v.t = "object" -> "{" \o StringifyMembers(v.props, PropOrder, TRUE) \o "}"

\* if (!params) return '{}'
formatParams(cmd) ==
  IF ~HasParameters(cmd) THEN "{}" ELSE Stringify(cmd.parameters)

\* command.functionName || ''
NameOrEmpty(cmd) == IF "functionName" \in DOMAIN cmd THEN cmd.functionName ELSE ""

formatCommandString(cmd) ==
  CASE cmd.type \in {"help", "clear", "history"} -> cmd.type
    [] cmd.type = "functions_list" -> "functions list"
    [] cmd.type = "tools_list" -> "tools list"
    [] cmd.type = "connect" ->
         IF HasParameters(cmd)
         THEN "connect " \o cmd.parameters.props.url.s \o " "
              \o cmd.parameters.props.apiKey.s
         ELSE "connect"
    [] cmd.type = "function_get" -> "function get " \o NameOrEmpty(cmd)
    [] cmd.type = "call_function" ->
         "call " \o NameOrEmpty(cmd) \o " " \o formatParams(cmd)
    [] cmd.type = "call_tool" ->
         "tool " \o NameOrEmpty(cmd) \o " " \o formatParams(cmd)
    [] cmd.type = "stream_function" ->
         "stream " \o NameOrEmpty(cmd) \o " " \o formatParams(cmd)
    [] cmd.type = "execute" ->
         "execute \"" \o (IF "text" \in DOMAIN cmd THEN cmd.text ELSE "") \o "\""
    [] OTHER -> "unknown command"

\* Mutant: the history item is built without its duration.
createHistoryItem_noDuration(cmd, result, duration) ==
  [command |-> formatCommandString(cmd), parsedCommand |-> cmd,
   response |-> result, favorite |-> FALSE]

createHistoryItem(cmd, result, duration) ==
  [command |-> formatCommandString(cmd), parsedCommand |-> cmd,
   response |-> result, duration |-> duration, favorite |-> FALSE]

NullResult == [null |-> TRUE]

\* What the switch does with a command before its first await:
\*   [await |-> TRUE, call]            a transport call is issued and awaited
\*   [await |-> FALSE, result, error]  the case ends without a transport call
\* (error = <<>> stands for `undefined`).
Done(result, error) == [await |-> FALSE, result |-> result, error |-> error]

Await(call) == [await |-> TRUE, call |-> call]

\* Mutant: every command type is sent to the transport as a functions listing.
Dispatch_alwaysLists(cmd) == Await([op |-> "listFunctions"])

Dispatch(cmd) ==
  CASE cmd.type = "help" -> Done([message |-> CommandHelp], <<>>)
    [] cmd.type = "clear" -> Done([message |-> <<"Terminal cleared">>], <<>>)
    [] cmd.type = "history" -> Done([message |-> <<"Command history">>], <<>>)
    [] cmd.type = "connect" ->
         IF HasParameters(cmd) THEN Await([op |-> "testConnection"])
         ELSE Done(NullResult, <<"Missing connection parameters">>)
    [] cmd.type = "functions_list" -> Await([op |-> "listFunctions"])
    [] cmd.type = "tools_list" ->
         Done([message |-> <<"Tool listing is not currently implemented">>], <<>>)
    [] cmd.type = "function_get" ->
         IF "functionName" \notin DOMAIN cmd
         THEN Done(NullResult, <<"Missing function name">>)
         ELSE Await([op |-> "getFunction", name |-> cmd.functionName])
    [] cmd.type = "call_function" ->
         IF "functionName" \notin DOMAIN cmd
         THEN Done(NullResult, <<"Missing function name">>)
         ELSE Await([op |-> "callFunction",
                     request |-> [name |-> cmd.functionName,
                                  parameters |-> IF HasParameters(cmd)
                                                 THEN cmd.parameters
                                                 ELSE EmptyObject]])
    [] cmd.type = "call_tool" ->
         IF "functionName" \notin DOMAIN cmd
         THEN Done(NullResult, <<"Missing tool name">>)
         ELSE Await([op |-> "callTool",
                     request |-> [name |-> cmd.functionName,
                                  parameters |-> IF HasParameters(cmd)
                                                 THEN cmd.parameters
                                                 ELSE EmptyObject]])
    [] cmd.type = "execute" ->
         IF "text" \notin DOMAIN cmd
         THEN Done(NullResult, <<"Missing text to execute">>)
         ELSE Await([op |-> "execute", request |-> [text |-> cmd.text]])
    [] cmd.type = "stream_function" ->
         Done([message |-> <<"Starting stream for function: ", NameOrEmpty(cmd)>>,
               streaming |-> TRUE], <<>>)
    [] OTHER -> Done(NullResult, <<"Unsupported command type: ", cmd.type>>)

\* The request an apiClient method sends: axios merges defaults.baseURL when
\* the request is made, the interceptor adds the X-API-Key header.
Request(call) ==
  With(With(call, "baseUrl", apiClient.baseUrl), "apiKey", apiClient.apiKey)

\* lines 241-256: the duration, the error put on the result, the history item
Finish(cmd, result, error, protocolStep, duration) ==
  LET res == IF error # <<>> THEN [error |-> error] ELSE result
      item == createHistoryItem(cmd, res, duration)
      out == [result |-> res, historyItem |-> item] IN
    IF protocolStep = <<>> THEN out ELSE With(out, "protocolStep", protocolStep[1])

----------------------------------------------------------------------------
(* Dispatches against the reducer *)

InitStoreVars ==
  /\ \E c \in 1..MaxCap :
       state = [initialState EXCEPT !.settings.maxHistoryItems = c]
  /\ nextId = 1
  /\ appendLog = <<>>
  /\ onlyAppends = TRUE

InitStoreFixed ==
  /\ state = initialState
  /\ nextId = 1
  /\ appendLog = <<>>
  /\ onlyAppends = TRUE

\* dispatch({type: 'ADD_HISTORY_ITEM', payload: {id: uuidv4(), ..., favorite: false}})
ADD_HISTORY_ITEM ==
  /\ nextId <= MaxItems
  /\ LET item == [id |-> nextId, favorite |-> FALSE] IN
       /\ state' = appReducer(state, [type |-> "ADD_HISTORY_ITEM", payload |-> item])
       /\ appendLog' = Append(appendLog, item.id)
  /\ nextId' = nextId + 1
  /\ UNCHANGED onlyAppends
  /\ UNCHANGED notStore

CLEAR_HISTORY ==
  /\ state.history # <<>>
  /\ state' = appReducer(state, [type |-> "CLEAR_HISTORY"])
  /\ appendLog' = <<>>
  /\ onlyAppends' = TRUE
  /\ UNCHANGED nextId
  /\ UNCHANGED notStore

TOGGLE_FAVORITE ==
  \E id \in 1..MaxItems :
    /\ state' = appReducer(state, [type |-> "TOGGLE_FAVORITE", payload |-> id])
    /\ UNCHANGED <<nextId, appendLog, onlyAppends>>
    /\ UNCHANGED notStore

REMOVE_HISTORY_ITEM ==
  \E id \in 1..MaxItems :
    /\ \E i \in 1..Len(state.history) : state.history[i].id = id
    /\ state' = appReducer(state, [type |-> "REMOVE_HISTORY_ITEM", payload |-> id])
    /\ onlyAppends' = FALSE
    /\ UNCHANGED <<nextId, appendLog>>
    /\ UNCHANGED notStore

UPDATE_SETTINGS ==
  \E c \in 1..MaxCap :
    /\ c # state.settings.maxHistoryItems
    /\ state' = appReducer(state, [type |-> "UPDATE_SETTINGS",
                                   payload |-> [maxHistoryItems |-> c]])
    /\ onlyAppends' = FALSE
    /\ UNCHANGED <<nextId, appendLog>>
    /\ UNCHANGED notStore

\* AppProvider.addFavorite(command, name): the id is Date.now().toString()
addFavorite ==
  \E name \in {"x", "y"} :
    /\ Len(state.favorites) < MaxFavorites
    /\ state' = appReducer(state, [type |-> "ADD_FAVORITE",
                                   payload |-> [id |-> now, name |-> name]])
    /\ UNCHANGED <<nextId, appendLog, onlyAppends>>
    /\ UNCHANGED notStore

\* AppProvider.removeFavorite(id)
removeFavorite ==
  \E id \in 0..MaxClock :
    /\ state' = appReducer(state, [type |-> "REMOVE_FAVORITE", payload |-> id])
    /\ state' # state
    /\ UNCHANGED <<nextId, appendLog, onlyAppends>>
    /\ UNCHANGED notStore

\* Date.now() advances between two calls
TimePasses ==
  /\ now < MaxClock
  /\ now' = now + 1
  /\ UNCHANGED varsStore
  /\ UNCHANGED <<apiClient, pc, input, argCommand, command, startTime, calls,
                 outcome, ret, varsTerm, varsWS, varsConn, varsTabs, varsUtil>>

NextStore ==
  \/ ADD_HISTORY_ITEM
  \/ CLEAR_HISTORY
  \/ TOGGLE_FAVORITE
  \/ REMOVE_HISTORY_ITEM
  \/ UPDATE_SETTINGS

\* the history next to the favorites list
NextFav ==
  \/ ADD_HISTORY_ITEM
  \/ TOGGLE_FAVORITE
  \/ addFavorite
  \/ removeFavorite
  \/ TimePasses

----------------------------------------------------------------------------
(* The inputs of executeCommand explored by the model *)

Names == {"f", "g"}

ParamObjects ==
  { Obj(p) : p \in UNION { [D -> {Num(10), Num(5), Str("x", 1)}] :
                            D \in SUBSET {"a", "n"} } }

\* {"a":..,"n":..} objects, the array [], and the primitives 5 and 0
ParamValues == ParamObjects \cup {Arr(0), Num(10), Num(0)}

ConnectParams(url, key) ==
  Obj([f \in {"url", "apiKey"} |-> IF f = "url" THEN Str(url, 2) ELSE Str(key, 2)])

InvalidJson == <<"Invalid JSON parameters. Parameters must be a valid JSON object.">>

WithParameters == {"call_function", "call_tool", "stream_function", "stream_tool"}

Commands ==
  { [type |-> t, valid |-> TRUE] :
      t \in {"help", "clear", "history", "functions_list", "tools_list"} }
  \cup { [type |-> "help", valid |-> FALSE, error |-> <<"Unrecognized command">>] }
  \cup { [type |-> "connect", valid |-> TRUE, parameters |-> ConnectParams(u, k)] :
           u \in Urls, k \in Keys }
  \cup { [type |-> "connect", valid |-> TRUE] }
  \cup { [type |-> "function_get", valid |-> TRUE, functionName |-> n] : n \in Names }
  \cup { [type |-> t, valid |-> TRUE, functionName |-> n, parameters |-> v] :
           t \in WithParameters, n \in Names, v \in ParamValues }
  \cup { [type |-> t, valid |-> FALSE, functionName |-> n, error |-> InvalidJson] :
           t \in WithParameters \ {"stream_tool"}, n \in Names }
  \cup { [type |-> t, valid |-> TRUE] : t \in {"function_get", "call_function",
                                                "call_tool", "execute"} }
  \cup { [type |-> "execute", valid |-> TRUE, text |-> "hi"] }

ScalarType(t) == [list |-> FALSE, ts |-> <<t>>]

UnionType(ts) == [list |-> TRUE, ts |-> ts]

\* {required: ["a", "n"], properties: {a: {type: "number", minimum: 6},
\*                                     n: {type: "integer"}}}
SchemaAN ==
  [required |-> <<"a", "n">>,
   properties |-> << [name |-> "a",
                      schema |-> [type |-> ScalarType("number"), minimum |-> 6]],
                     [name |-> "n", schema |-> [type |-> ScalarType("integer")]] >>]

\* {properties: {a: {type: "string", pattern: "("}}}
SchemaBadPattern ==
  [properties |-> << [name |-> "a",
                      schema |-> [type |-> ScalarType("string"),
                                  pattern |-> InvalidPattern]] >>]

\* {required: ["a"], properties: {a: {type: ["string", "null"], minLength: 2},
\*                                n: {type: "number", maximum: 3}}}
SchemaUnion ==
  [required |-> <<"a">>,
   properties |-> << [name |-> "a",
                      schema |-> [type |-> UnionType(<<"string", "null">>),
                                  minLength |-> 2]],
                     [name |-> "n",
                      schema |-> [type |-> ScalarType("number"), maximum |-> 3]] >>]

NoSchema == [present |-> FALSE]

FunctionSchemas ==
  {NoSchema}
  \cup { [present |-> TRUE, def |-> [name |-> "f", parameters |-> sc]] :
           sc \in {SchemaAN, SchemaBadPattern, SchemaUnion} }

\* How a transport call can end.  apiClient.testConnection never rejects: it
\* resolves to a boolean (api/client.ts, lines 88-95).
Resolutions(call) ==
  IF call.op = "testConnection"
  THEN { [ok |-> TRUE, value |-> TRUE], [ok |-> TRUE, value |-> FALSE] }
  ELSE { [ok |-> TRUE, value |-> "payload"] }

Rejections ==
  { [ok |-> FALSE, isError |-> TRUE, message |-> <<"Network Error">>],
    [ok |-> FALSE, isError |-> TRUE,
     message |-> <<"Request failed with status code 500">>],
    [ok |-> FALSE, isError |-> FALSE] }

----------------------------------------------------------------------------
(* executeCommand as a process: the call up to its first await, and the
   continuation once the awaited transport call has settled *)

None == [none |-> TRUE]

InitExecVars ==
  /\ apiClient = [baseUrl |-> "u0", apiKey |-> "k0"]
  /\ now = 0
  /\ pc = "idle"
  /\ input = None
  /\ argCommand = None
  /\ command = None
  /\ startTime = 0
  /\ calls = <<>>
  /\ outcome = None
  /\ ret = None

\* Date.now() read at the end of a synchronous stretch of code
EndTimes == now..Min(now + 1, MaxClock)

\* lines 27-50 and the switch up to the first await, for a command of cs and a
\* schema of fss
ExecuteCommandOf(cs, fss) ==
  \E c \in cs, fs \in fss, t \in EndTimes :
    /\ pc = "idle"
    /\ input' = [command |-> c, functionSchema |-> fs]
    /\ startTime' = now
    /\ now' = t
    /\ outcome' = None
    /\ LET validated == fs.present /\ HasParameters(c)
           v == IF validated THEN validateCommand(c, fs.def)
                ELSE [threw |-> FALSE, ret |-> c, arg |-> c]
       IN
         /\ argCommand' = v.arg
         /\ IF v.threw
            THEN /\ pc' = "threw"
                 /\ command' = c
                 /\ calls' = <<>>
                 /\ ret' = None
            ELSE /\ command' = v.ret
                 /\ IF validated /\ ~v.ret.valid
                    THEN /\ pc' = "returned"
                         /\ calls' = <<>>
                         /\ ret' = [result |-> [error |-> v.ret.error],
                                    historyItem |->
                                      createHistoryItem(v.ret, [error |-> v.ret.error],
                                                        t - now)]
                    ELSE LET d == Dispatch(v.ret) IN
                           IF d.await
                           THEN /\ pc' = "awaiting"
                                /\ calls' = <<Request(d.call)>>
                                /\ ret' = None
                           ELSE /\ pc' = "returned"
                                /\ calls' = <<>>
                                /\ ret' = Finish(v.ret, d.result, d.error, <<>>, t - now)
    /\ UNCHANGED apiClient
    /\ UNCHANGED notExec

ExecuteCommand == ExecuteCommandOf(Commands, FunctionSchemas)

\* the protocol step built after a successful call
ProtocolStep(call, value, duration) ==
  CASE call.op = "listFunctions" ->
         [type |-> "request", method |-> "GET", endpoint |-> <<"/api/functions">>,
          data |-> [response |-> value], duration |-> duration]
    [] call.op = "getFunction" ->
         [type |-> "request", method |-> "GET",
          endpoint |-> <<"/api/functions/", call.name>>,
          data |-> [response |-> value], duration |-> duration]
    [] call.op = "callFunction" ->
         [type |-> "request", method |-> "POST", endpoint |-> <<"/api/functions/call">>,
          data |-> [request |-> call.request, response |-> value],
          duration |-> duration]
    [] call.op = "callTool" ->
         [type |-> "request", method |-> "POST", endpoint |-> <<"/api/tools/call">>,
          data |-> [request |-> call.request, response |-> value],
          duration |-> duration]
    [] call.op = "execute" ->
         [type |-> "request", method |-> "POST", endpoint |-> <<"/api/execute">>,
          data |-> [request |-> call.request, response |-> value],
          duration |-> duration]

\* the result assigned after a successful call
CallResult(call, value) ==
  CASE call.op = "listFunctions" -> [functions |-> value]
    [] call.op = "getFunction" -> [function |-> value]
    [] OTHER -> [response |-> value]

\* the message of the inner catch when the rejection is not an Error
Fallback(call) ==
  CASE call.op = "listFunctions" -> <<"Failed to list functions">>
    [] call.op = "getFunction" -> <<"Failed to get function: ", call.name>>
    [] call.op = "callFunction" -> <<"Failed to call function: ", call.request.name>>
    [] call.op = "callTool" -> <<"Failed to call tool: ", call.request.name>>
    [] call.op = "execute" -> <<"Failed to execute text">>

\* the awaited call resolves
TransportResolves ==
  /\ pc = "awaiting"
  /\ \E o \in Resolutions(calls[1]), t \in EndTimes :
    /\ outcome' = o
    /\ now' = t
    /\ pc' = "returned"
    /\ ret' = IF calls[1].op = "testConnection"
              THEN IF o.value
                   THEN Finish(command,
                               [message |-> <<"Connected to ",
                                              command.parameters.props.url.s>>],
                               <<>>, <<>>, t - startTime)
                   ELSE Finish(command, NullResult,
                               <<"Failed to connect to ",
                                 command.parameters.props.url.s>>, <<>>,
                               t - startTime)
              ELSE Finish(command, CallResult(calls[1], o.value), <<>>,
                          <<ProtocolStep(calls[1], o.value, t - startTime)>>,
                          t - startTime)
    /\ UNCHANGED <<apiClient, input, argCommand, command, startTime, calls>>
    /\ UNCHANGED notExec

\* the awaited call rejects: the catch of the case
TransportRejects ==
  /\ pc = "awaiting"
  /\ calls[1].op # "testConnection"
  /\ \E o \in Rejections, t \in EndTimes :
    /\ outcome' = o
    /\ now' = t
    /\ pc' = "returned"
    /\ ret' = Finish(command, NullResult,
                     IF o.isError THEN o.message ELSE Fallback(calls[1]), <<>>,
                     t - startTime)
    /\ UNCHANGED <<apiClient, input, argCommand, command, startTime, calls>>
    /\ UNCHANGED notExec

\* time passes while the call is in flight
Tick ==
  /\ pc = "awaiting"
  /\ now < MaxClock
  /\ now' = now + 1
  /\ UNCHANGED <<apiClient, pc, input, argCommand, command, startTime, calls,
                 outcome, ret>>
  /\ UNCHANGED notExec

\* the caller has consumed the outcome; executeCommand can be called again
ExecIdle ==
  /\ pc \in {"returned", "threw"}
  /\ pc' = "idle"
  /\ now' = 0
  /\ input' = None
  /\ argCommand' = None
  /\ command' = None
  /\ startTime' = 0
  /\ calls' = <<>>
  /\ outcome' = None
  /\ ret' = None
  /\ UNCHANGED apiClient
  /\ UNCHANGED notExec

\* MCPApiClient.updateConfig(baseUrl, apiKey), called by the application
updateConfig(client, baseUrl, apiKey) ==
  [baseUrl |-> IF baseUrl \notin {"", "undefined"} THEN baseUrl ELSE client.baseUrl,
   apiKey |-> IF apiKey \notin {"", "undefined"} THEN apiKey ELSE client.apiKey]

ApiUpdateConfig ==
  \E u \in Urls, k \in Keys :
    /\ pc = "idle"
    /\ apiClient' = updateConfig(apiClient, u, k)
    /\ apiClient' # apiClient
    /\ UNCHANGED <<now, pc, input, argCommand, command, startTime, calls, outcome, ret>>
    /\ UNCHANGED notExec

NextExec ==
  \/ ExecuteCommand
  \/ TransportResolves
  \/ TransportRejects
  \/ Tick
  \/ ExecIdle
  \/ ApiUpdateConfig

----------------------------------------------------------------------------
(* The terminal's connect command.  Two TerminalContainer components exist:
   components/Terminal/TerminalContainer.tsx configures apiClient itself and
   reports a failed probe as 'Connection test failed'; the one found in
   components/Terminal/CommandInput.tsx (lines 324-593) dispatches the new
   target, leaves apiClient to AppProvider's effect, and reports the url. *)

InitTermVars ==
  /\ term = [pc |-> "idle"]
  /\ effectPending = FALSE

\* what parseCommand yields for `connect <url> <apiKey>`
ConnectCommands ==
  { [type |-> "connect", valid |-> TRUE, parameters |-> ConnectParams(u, k)] :
      u \in Urls, k \in Keys }

\* the request apiClient.testConnection() sends with client configuration c
Probe(c) == [op |-> "testConnection", baseUrl |-> c.baseUrl, apiKey |-> c.apiKey]

\* dispatch(action) under AppProvider: the reducer runs, and the effect on
\* [state.connection.serverUrl, state.connection.apiKey] is queued on a change
Dispatched(action) ==
  LET st == appReducer(state, action) IN
    /\ state' = st
    /\ effectPending' =
         (effectPending \/ st.connection.serverUrl # state.connection.serverUrl
                        \/ st.connection.apiKey # state.connection.apiKey)

\* TerminalContainer.tsx, lines 216-225: updateConfig, then the probe is sent
TerminalConnect ==
  \E u \in Urls, k \in Keys :
    /\ term.pc = "idle"
    /\ apiClient' = updateConfig(apiClient, u, k)
    /\ term' = [pc |-> "probing", handler |-> "TerminalContainer.tsx",
                url |-> u, apiKey |-> k, probe |-> Probe(apiClient')]
    /\ UNCHANGED <<state, effectPending>>
    /\ UNCHANGED notTerm

\* TerminalContainer.tsx, lines 225-272: the probe settles
TerminalProbeSettles ==
  \E success \in BOOLEAN :
    /\ term.pc = "probing"
    /\ term.handler = "TerminalContainer.tsx"
    /\ Dispatched([type |-> "SET_CONNECTION",
                   payload |-> [serverUrl |-> term.url, apiKey |-> term.apiKey,
                                connected |-> success]])
    /\ term' = With(With([term EXCEPT !.pc = "done"], "success", success), "item",
                    IF success THEN [info |-> <<"Connected to ", term.url>>]
                    ELSE [error |-> <<"Connection test failed">>])
    /\ UNCHANGED apiClient
    /\ UNCHANGED notTerm

\* CommandInput.tsx, lines 458-471: SET_CONNECTION, then the probe is sent
TerminalConnectDispatching ==
  \E u \in Urls, k \in Keys :
    /\ term.pc = "idle"
    /\ Dispatched([type |-> "SET_CONNECTION",
                   payload |-> [serverUrl |-> u, apiKey |-> k, connected |-> FALSE]])
    /\ term' = [pc |-> "probing", handler |-> "CommandInput.tsx",
                url |-> u, apiKey |-> k, probe |-> Probe(apiClient)]
    /\ UNCHANGED apiClient
    /\ UNCHANGED notTerm

\* CommandInput.tsx, lines 471-491: the probe settles
TerminalProbeSettlesDispatching ==
  \E connected \in BOOLEAN :
    /\ term.pc = "probing"
    /\ term.handler = "CommandInput.tsx"
    /\ Dispatched([type |-> "SET_CONNECTION", payload |-> [connected |-> connected]])
    /\ term' = With(With([term EXCEPT !.pc = "done"], "success", connected), "item",
                    IF connected
                    THEN [info |-> <<"Connected to server at ", term.url>>]
                    ELSE [error |-> <<"Failed to connect to server at ", term.url>>])
    /\ UNCHANGED apiClient
    /\ UNCHANGED notTerm

\* handleCommand has returned; the next command can be entered
TerminalIdle ==
  /\ term.pc = "done"
  /\ term' = [pc |-> "idle"]
  /\ UNCHANGED <<state, apiClient, effectPending>>
  /\ UNCHANGED notTerm

\* AppContext (part_005), lines 225-227: the effect runs after a render
AppProviderEffect ==
  /\ effectPending
  /\ effectPending' = FALSE
  /\ apiClient' = updateConfig(apiClient, state.connection.serverUrl,
                               state.connection.apiKey)
  /\ UNCHANGED <<state, term>>
  /\ UNCHANGED notTerm

\* executeCommand called with a connect command
ExecuteConnect == ExecuteCommandOf(ConnectCommands, {NoSchema})

NextTerm ==
  \/ TerminalConnect
  \/ TerminalProbeSettles
  \/ TerminalConnectDispatching
  \/ TerminalProbeSettlesDispatching
  \/ TerminalIdle
  \/ AppProviderEffect
  \/ ExecuteConnect
  \/ TransportResolves
  \/ Tick
  \/ ExecIdle

----------------------------------------------------------------------------
(* WebSocketClient (utils/commandParser.ts, lines 403-638).

   ws.socket is the readyState of the socket this.socket refers to, or "null".
   A socket keeps the handlers bound in connect() after the client drops its
   reference, so its events still reach the client: ws.orphans counts such
   sockets by what can still happen to them.  A timer whose id was overwritten
   in reconnectTimeout cannot be cleared any more: ws.orphanTimers counts
   those that are still pending. *)

maxReconnectAttempts == 5

BaseDelay == 1000

MaxDelay == 30000

\* readyState of an unreferenced socket; "CLOSING_0" is a socket that close()
\* was called on before it opened: its close event is never clean
OrphanKinds == {"CONNECTING", "OPEN", "CLOSING", "CLOSING_0"}

NoOrphans == [k \in OrphanKinds |-> 0]

OrphanCount(w) ==
  w.orphans["CONNECTING"] + w.orphans["OPEN"] + w.orphans["CLOSING"]
    + w.orphans["CLOSING_0"]

\* the client drops its reference to a socket whose readyState is rs
Dropped(orphans, rs) ==
  IF rs = "null" THEN orphans ELSE [orphans EXCEPT ![rs] = @ + 1]

\* socket.close() on a socket whose readyState is rs
AfterClose(rs) == IF rs = "CONNECTING" THEN "CLOSING_0" ELSE "CLOSING"

InitWSVars ==
  /\ ws = [socket |-> "null", orphans |-> NoOrphans, url |-> "ws://u",
           reconnectAttempts |-> 0, reconnectTimeout |-> "null",
           orphanTimers |-> 0,
           connectionState |-> [connected |-> FALSE, connecting |-> FALSE,
                                error |-> "undefined"]]
  /\ explicitlyDisconnected = FALSE
  /\ autoAttempts = 0
  /\ delays = <<>>
  /\ wsEvent = [op |-> "new"]

\* lines 629-637
updateConnectionState(w, update) ==
  [w EXCEPT !.connectionState =
     [f \in DOMAIN w.connectionState |->
        IF f \in DOMAIN update THEN update[f] ELSE w.connectionState[f]]]

\* lines 454-456
isConnected(w) == w.socket # "null" /\ w.socket = "OPEN"

\* lines 461-489; new URL('') throws, which the catch turns into an error state
connect(w) ==
  IF isConnected(w) \/ w.connectionState.connecting THEN w
  ELSE LET w1 == updateConnectionState(w, [connecting |-> TRUE,
                                          error |-> "undefined"]) IN
         IF w.url = ""
         THEN updateConnectionState(w1, [connecting |-> FALSE,
                                         error |-> "Invalid URL"])
         ELSE [w1 EXCEPT !.socket = "CONNECTING",
                         !.orphans = Dropped(w.orphans, w.socket)]

\* connect() constructs a socket
Constructs(w) ==
  ~isConnected(w) /\ ~w.connectionState.connecting /\ w.url # ""

\* lines 494-510
disconnect(w) ==
  LET w1 == IF w.socket # "null"
            THEN [w EXCEPT !.socket = "null",
                           !.orphans = Dropped(w.orphans, AfterClose(w.socket))]
            ELSE w
      w2 == [w1 EXCEPT !.reconnectTimeout = "null", !.reconnectAttempts = 0]
  IN updateConnectionState(w2, [connected |-> FALSE, connecting |-> FALSE])

\* lines 561-568
handleOpen(w) ==
  updateConnectionState([w EXCEPT !.reconnectAttempts = 0],
                        [connected |-> TRUE, connecting |-> FALSE,
                         error |-> "undefined"])

\* line 605
Delay(attempts) ==
  IF BaseDelay * 2 ^ attempts <= MaxDelay THEN BaseDelay * 2 ^ attempts
  ELSE MaxDelay

\* the close event's guard, line 603
Reschedules(w, wasClean) ==
  ~wasClean /\ w.reconnectAttempts < maxReconnectAttempts

\* lines 594-611, run for a close event of a socket that has already been
\* taken out of w; a socket still referenced loses its reference at line 595
handleClose(w, wasClean) ==
  LET w1 == updateConnectionState(
              [w EXCEPT !.socket = "null",
                        !.orphans = Dropped(w.orphans, w.socket)],
              [connected |-> FALSE, connecting |-> FALSE])
  IN IF Reschedules(w, wasClean)
     THEN [w1 EXCEPT !.reconnectAttempts = @ + 1,
                     !.orphanTimers =
                        IF w.reconnectTimeout = "pending" THEN @ + 1 ELSE @,
                     !.reconnectTimeout = "pending"]
     ELSE w1

\* lines 616-624
handleError(w) ==
  updateConnectionState(w, [error |-> "WebSocket error occurred"])

\* the socket whose event is delivered: the referenced one or an orphan
Sources(w) ==
  (IF w.socket # "null" THEN {[current |-> TRUE, rs |-> w.socket]} ELSE {})
  \cup { [current |-> FALSE, rs |-> k] : k \in {j \in OrphanKinds : w.orphans[j] > 0} }

\* w without the socket src, which has reached CLOSED
Without(w, src) ==
  IF src.current THEN [w EXCEPT !.socket = "null"]
  ELSE [w EXCEPT !.orphans[src.rs] = @ - 1]

\* w with the socket src in readyState rs
Moved(w, src, rs) ==
  IF src.current THEN [w EXCEPT !.socket = rs]
  ELSE [w EXCEPT !.orphans[src.rs] = @ - 1, !.orphans[rs] = @ + 1]

\* the values of wasClean a close event of a socket in readyState rs can carry
CloseKinds(rs) ==
  IF rs \in {"CONNECTING", "CLOSING_0"} THEN {FALSE} ELSE {TRUE, FALSE}

\* the caller calls connect()
WsConnect ==
  /\ OrphanCount(connect(ws)) <= MaxOrphans
  /\ ws' = connect(ws)
  /\ explicitlyDisconnected' = FALSE
  /\ autoAttempts' = IF Constructs(ws) THEN 0 ELSE autoAttempts
  /\ wsEvent' = [op |-> "connect"]
  /\ UNCHANGED delays
  /\ UNCHANGED notWS

\* the caller calls disconnect()
WsDisconnect ==
  /\ OrphanCount(disconnect(ws)) <= MaxOrphans
  /\ ws' = disconnect(ws)
  /\ explicitlyDisconnected' = TRUE
  /\ delays' = <<>>
  /\ wsEvent' = [op |-> "disconnect"]
  /\ UNCHANGED autoAttempts
  /\ UNCHANGED notWS

\* lines 435-449: updateConfig(url, apiKey)
WsUpdateConfig ==
  \E url \in {"", "ws://u", "ws://v"} :
    LET w1 == IF url # "" THEN [ws EXCEPT !.url = url] ELSE ws
        w2 == IF isConnected(w1) THEN connect(disconnect(w1)) ELSE w1
    IN /\ w2 # ws
       /\ OrphanCount(w2) <= MaxOrphans
       /\ ws' = w2
       /\ explicitlyDisconnected' = (explicitlyDisconnected /\ ~isConnected(w1))
       /\ autoAttempts' = IF isConnected(w1) THEN 0 ELSE autoAttempts
       /\ delays' = IF isConnected(w1) THEN <<>> ELSE delays
       /\ wsEvent' = [op |-> "updateConfig"]
       /\ UNCHANGED notWS

\* a reconnect timer expires, lines 607-609: connect()
WsTimerFires ==
  \E referenced \in BOOLEAN :
    /\ IF referenced THEN ws.reconnectTimeout = "pending" ELSE ws.orphanTimers > 0
    /\ autoAttempts < MaxAuto
    /\ LET w1 == IF referenced THEN [ws EXCEPT !.reconnectTimeout = "fired"]
                 ELSE [ws EXCEPT !.orphanTimers = @ - 1]
       IN /\ OrphanCount(connect(w1)) <= MaxOrphans
          /\ ws' = connect(w1)
          /\ autoAttempts' = IF Constructs(w1) THEN autoAttempts + 1
                             ELSE autoAttempts
    /\ wsEvent' = [op |-> "timer"]
    /\ UNCHANGED <<explicitlyDisconnected, delays>>
    /\ UNCHANGED notWS

\* the open event of a socket
WsOpen ==
  \E src \in Sources(ws) :
    /\ src.rs = "CONNECTING"
    /\ ws' = handleOpen(Moved(ws, src, "OPEN"))
    /\ autoAttempts' = 0
    /\ delays' = <<>>
    /\ wsEvent' = [op |-> "open"]
    /\ UNCHANGED explicitlyDisconnected
    /\ UNCHANGED notWS

\* the server starts the closing handshake on the referenced socket: its
\* readyState is CLOSING until the close event is delivered
WsClosing ==
  /\ ws.socket = "OPEN"
  /\ ws' = [ws EXCEPT !.socket = "CLOSING"]
  /\ wsEvent' = [op |-> "closing"]
  /\ UNCHANGED <<explicitlyDisconnected, autoAttempts, delays>>
  /\ UNCHANGED notWS

\* the close event of a socket
WsClose ==
  \E src \in Sources(ws) : \E wasClean \in CloseKinds(src.rs) :
    LET w1 == Without(ws, src)
        w2 == handleClose(w1, wasClean)
    IN /\ OrphanCount(w2) <= MaxOrphans
       /\ w2.orphanTimers <= MaxOrphanTimers
       /\ ws' = w2
       /\ delays' = IF Reschedules(w1, wasClean)
                    THEN Append(delays, Delay(w2.reconnectAttempts))
                    ELSE delays
       /\ wsEvent' = [op |-> "close", wasClean |-> wasClean,
                      scheduled |-> Reschedules(w1, wasClean)]
       /\ UNCHANGED <<explicitlyDisconnected, autoAttempts>>
       /\ UNCHANGED notWS

\* the error event of a socket
WsError ==
  \E src \in Sources(ws) :
    /\ ws' = handleError(ws)
    /\ wsEvent' = [op |-> "error"]
    /\ UNCHANGED <<explicitlyDisconnected, autoAttempts, delays>>
    /\ UNCHANGED notWS

NextWS ==
  \/ WsConnect
  \/ WsDisconnect
  \/ WsUpdateConfig
  \/ WsTimerFires
  \/ WsOpen
  \/ WsClosing
  \/ WsClose
  \/ WsError

----------------------------------------------------------------------------
(* The Connection State Manager: AppProvider.testConnection and
   AppProvider.updateConnection (AppContext, part_005 lines 232-280) *)

Undefined == "undefined"

\* terminal tabs mounted at the same time
MaxTabs == 2

Tabs == 1..MaxTabs

\* lines a tab's display-local transcript may hold before it has to be cleared
MaxLines == 2

\* no utility function has been called
InitUtilVars ==
  /\ parser = [pc |-> "idle"]
  /\ hooks = {}

\* nothing of the provider or of a terminal tab is running
InitUIVars ==
  /\ connTest = [pc |-> "idle"]
  /\ tabs = [t \in Tabs |-> [component |-> "CommandInput.tsx",
                              isExecuting |-> FALSE, inFlight |-> 0,
                              transcript |-> 1]]

\* how GET /api/functions can end for MCPApiClient.testConnection
ProbeOutcomes == Resolutions([op |-> "listFunctions"]) \cup Rejections

\* MCPApiClient.testConnection (api/client.ts, lines 88-95): true when
\* listFunctions resolved, false when it rejected; it never rejects itself
testConnection(o) == o.ok

\* reducing a list of actions, first to last
RECURSIVE Reduce(_, _)
Reduce(st, actions) ==
  IF actions = <<>> THEN st
  ELSE Reduce(appReducer(st, Head(actions)), Tail(actions))

\* lines 233-237: loading, error cleared, the probe is sent
TestConnection ==
  /\ connTest.pc = "idle"
  /\ state' = Reduce(state, << [type |-> "SET_LOADING", payload |-> TRUE],
                               [type |-> "CLEAR_CONNECTION_ERROR"] >>)
  /\ connTest' = [pc |-> "probing"]
  /\ UNCHANGED <<nextId, appendLog, onlyAppends, tabs>>
  /\ UNCHANGED <<varsExec, varsTerm, varsWS, varsUtil>>

\* Mutant: a failed probe is recorded without an error string.
AfterProbe_noError(connected) ==
  << [type |-> "SET_CONNECTION", payload |-> [connected |-> connected]],
     [type |-> "SET_LOADING", payload |-> FALSE] >>

\* lines 239-251: the dispatches after the probe has resolved to `connected`
AfterProbe(connected) ==
  << [type |-> "SET_CONNECTION", payload |-> [connected |-> connected]] >>
  \o (IF ~connected
      THEN << [type |-> "SET_CONNECTION_ERROR",
               payload |-> "Failed to connect to the server"] >>
      ELSE <<>>)
  \o << [type |-> "SET_LOADING", payload |-> FALSE] >>

\* lines 237-252: apiClient.testConnection() has resolved; the catch of
\* lines 253-263 is never entered because that call does not reject
TestConnectionSettles ==
  \E o \in ProbeOutcomes :
    /\ connTest.pc = "probing"
    /\ state' = Reduce(state, AfterProbe(testConnection(o)))
    /\ connTest' = [pc |-> "resolved", probe |-> o, ret |-> testConnection(o)]
    /\ UNCHANGED <<nextId, appendLog, onlyAppends, tabs>>
    /\ UNCHANGED <<varsExec, varsTerm, varsWS, varsUtil>>

\* the caller has the boolean
TestConnectionIdle ==
  /\ connTest.pc = "resolved"
  /\ connTest' = [pc |-> "idle"]
  /\ UNCHANGED <<varsStore, tabs>>
  /\ UNCHANGED <<varsExec, varsTerm, varsWS, varsUtil>>

\* lines 269-280: updateConnection(serverUrl?, apiKey?); an argument left out
\* is the value undefined, and the payload has all three properties
updateConnection(serverUrl, apiKey) ==
  IF serverUrl # Undefined \/ apiKey # Undefined
  THEN state' = appReducer(state, [type |-> "SET_CONNECTION",
                                   payload |-> [serverUrl |-> serverUrl,
                                                apiKey |-> apiKey,
                                                connected |-> FALSE]])
  ELSE state' = state

UpdateConnection ==
  \E u \in Urls \cup {Undefined}, k \in Keys \cup {Undefined} :
    /\ updateConnection(u, k)
    /\ state' # state
    /\ UNCHANGED <<nextId, appendLog, onlyAppends, connTest, tabs>>
    /\ UNCHANGED <<varsExec, varsTerm, varsWS, varsUtil>>

\* the partial payloads of SET_CONNECTION dispatched by the components
ConnectionPayloads ==
  UNION { { [f \in D |-> CASE f = "serverUrl" -> u [] f = "apiKey" -> k
                           [] f = "connected" -> c] :
              u \in Urls, k \in Keys, c \in BOOLEAN } :
          D \in SUBSET {"serverUrl", "apiKey", "connected"} \ {{}} }

\* dispatch({type: 'SET_CONNECTION', payload})
SET_CONNECTION ==
  \E payload \in ConnectionPayloads :
    /\ state' = appReducer(state, [type |-> "SET_CONNECTION", payload |-> payload])
    /\ state' # state
    /\ UNCHANGED <<nextId, appendLog, onlyAppends, connTest, tabs>>
    /\ UNCHANGED <<varsExec, varsTerm, varsWS, varsUtil>>

NextConn ==
  \/ TestConnection
  \/ TestConnectionSettles
  \/ TestConnectionIdle
  \/ UpdateConnection
  \/ SET_CONNECTION

----------------------------------------------------------------------------
(* Terminal tabs: handleCommand of the two TerminalContainer versions and the
   string form of executeCommand, run by several tabs over the one AppState *)

\* what a tab's user types
TabCommands == {"help", "clear", "connect"}

\* commands of one tab that may wait for their transport call at once
MaxInFlight == 2

\* the two versions of the terminal component
Components == {"CommandInput.tsx", "TerminalContainer.tsx"}

\* the parameters of the connect command a tab's user types
ConnectTarget == [url |-> "u1", apiKey |-> "k1"]

\* a favorite that loadState() found in local storage
StoredFavorite == [id |-> 0, name |-> "x"]

\* CommandInput.tsx, lines 389-399: the command is added to the global history
Appended_twice(st, item) ==
  LET action == [type |-> "ADD_HISTORY_ITEM", payload |-> item] IN
    appReducer(appReducer(st, action), action)

Appended(st, item) ==
  appReducer(st, [type |-> "ADD_HISTORY_ITEM", payload |-> item])

\* CommandInput.handleExecute (line 108) and the handleCommand of
\* CommandInput.tsx it calls, up to its first await or its return
HandleCommandDispatchingOf(t, c) ==
  /\ tabs[t].component = "CommandInput.tsx"
  /\ ~tabs[t].isExecuting
  /\ nextId <= MaxItems
  /\ c = "clear" \/ tabs[t].transcript < MaxLines
  /\ LET item == [id |-> nextId, favorite |-> FALSE]
         st == Appended(state, item) IN
       /\ appendLog' = Append(appendLog, item.id)
       /\ nextId' = nextId + 1
       /\ CASE c = "connect" ->
                 /\ state' = appReducer(st, [type |-> "SET_CONNECTION",
                                 payload |-> [serverUrl |-> ConnectTarget.url,
                                              apiKey |-> ConnectTarget.apiKey,
                                              connected |-> FALSE]])
                 /\ tabs' = [tabs EXCEPT ![t].isExecuting = TRUE,
                                         ![t].inFlight = 1,
                                         ![t].transcript = @ + 1]
            [] c = "clear" ->
                 /\ state' = st
                 /\ tabs' = [tabs EXCEPT ![t].transcript = 0]
            [] OTHER ->
                 /\ state' = st
                 /\ tabs' = [tabs EXCEPT ![t].transcript = @ + 1]
  /\ UNCHANGED onlyAppends
  /\ UNCHANGED <<varsExec, varsTerm, varsWS, varsConn, varsUtil>>

HandleCommandDispatching ==
  \E t \in Tabs, c \in TabCommands : HandleCommandDispatchingOf(t, c)

\* CommandInput.tsx, lines 471-519: the probe of the tab's connect has
\* settled; finally { setIsExecuting(false) }
HandleCommandDispatchingSettles ==
  \E t \in Tabs, o \in ProbeOutcomes :
    /\ tabs[t].component = "CommandInput.tsx"
    /\ tabs[t].inFlight > 0
    /\ state' = appReducer(state, [type |-> "SET_CONNECTION",
                                   payload |-> [connected |-> testConnection(o)]])
    /\ tabs' = [tabs EXCEPT ![t].isExecuting = FALSE, ![t].inFlight = 0]
    /\ UNCHANGED <<nextId, appendLog, onlyAppends>>
    /\ UNCHANGED <<varsExec, varsTerm, varsWS, varsConn, varsUtil>>

\* TerminalContainer.tsx: Enter in its input (lines 485-487) calls
\* handleCommand, here up to its first await or its return
HandleCommandOf(t, c) ==
  /\ tabs[t].component = "TerminalContainer.tsx"
  /\ c = "clear" \/ tabs[t].transcript < MaxLines
  /\ c = "connect" => tabs[t].inFlight < MaxInFlight
  /\ CASE c = "connect" ->
            /\ apiClient' = updateConfig(apiClient, ConnectTarget.url,
                                         ConnectTarget.apiKey)
            /\ tabs' = [tabs EXCEPT ![t].inFlight = @ + 1,
                                    ![t].transcript = @ + 1]
            /\ UNCHANGED state
       [] c = "clear" ->
            /\ state' = appReducer(state, [type |-> "CLEAR_PROTOCOL_STEPS"])
            /\ tabs' = [tabs EXCEPT ![t].transcript = 1]
            /\ UNCHANGED apiClient
       [] OTHER ->
            /\ tabs' = [tabs EXCEPT ![t].transcript = @ + 1]
            /\ UNCHANGED <<state, apiClient>>
  /\ UNCHANGED <<nextId, appendLog, onlyAppends>>
  /\ UNCHANGED <<now, pc, input, argCommand, command, startTime, calls, outcome, ret>>
  /\ UNCHANGED <<varsTerm, varsWS, varsConn, varsUtil>>

HandleCommand ==
  \E t \in Tabs, c \in TabCommands : HandleCommandOf(t, c)

\* TerminalContainer.tsx, lines 226-273: the probe of one of the tab's
\* connect commands has settled
HandleCommandSettles ==
  \E t \in Tabs, o \in ProbeOutcomes :
    /\ tabs[t].component = "TerminalContainer.tsx"
    /\ tabs[t].inFlight > 0
    /\ state' = appReducer(state, [type |-> "SET_CONNECTION",
                   payload |-> [serverUrl |-> ConnectTarget.url,
                                apiKey |-> ConnectTarget.apiKey,
                                connected |-> testConnection(o)]])
    /\ tabs' = [tabs EXCEPT ![t].inFlight = @ - 1]
    /\ UNCHANGED <<nextId, appendLog, onlyAppends>>
    /\ UNCHANGED <<varsExec, varsTerm, varsWS, varsConn, varsUtil>>

\* part_004, lines 27-56: executeCommand(commandString, state, dispatch)
ExecuteCommandStringOf(t, c) ==
  /\ tabs[t].inFlight = 0
  /\ IF c = "clear"
       THEN /\ state' = Reduce(state, <<[type |-> "CLEAR_HISTORY"],
                                        [type |-> "CLEAR_PROTOCOL_STEPS"]>>)
            /\ appendLog' = <<>>
            /\ onlyAppends' = TRUE
       ELSE UNCHANGED <<state, appendLog, onlyAppends>>
  /\ UNCHANGED <<nextId, tabs>>
  /\ UNCHANGED <<varsExec, varsTerm, varsWS, varsConn, varsUtil>>

ExecuteCommandString ==
  \E t \in Tabs, c \in {"help", "clear"} : ExecuteCommandStringOf(t, c)

NextTabs ==
  \/ HandleCommandDispatching
  \/ HandleCommandDispatchingSettles
  \/ HandleCommand
  \/ HandleCommandSettles
  \/ ExecuteCommandString

----------------------------------------------------------------------------
(* Specifications *)

vars == <<varsStore, varsExec, varsTerm, varsWS, varsConn, varsTabs, varsUtil>>

InitStore == InitStoreVars /\ InitExecVars /\ InitTermVars /\ InitWSVars /\ InitUIVars
              /\ InitUtilVars

SpecStore == InitStore /\ [][NextStore]_vars

InitFav == InitStoreFixed /\ InitExecVars /\ InitTermVars /\ InitWSVars /\ InitUIVars
              /\ InitUtilVars

SpecFav == InitFav /\ [][NextFav]_vars

InitExec == InitStoreFixed /\ InitExecVars /\ InitTermVars /\ InitWSVars /\ InitUIVars
              /\ InitUtilVars

SpecExec == InitExec /\ [][NextExec]_vars

InitTerm == InitStoreFixed /\ InitExecVars /\ InitTermVars /\ InitWSVars /\ InitUIVars
              /\ InitUtilVars

SpecTerm == InitTerm /\ [][NextTerm]_vars

InitWS == InitStoreFixed /\ InitExecVars /\ InitTermVars /\ InitWSVars /\ InitUIVars
              /\ InitUtilVars

SpecWS == InitWS /\ [][NextWS]_vars

InitConn == InitStoreFixed /\ InitExecVars /\ InitTermVars /\ InitWSVars /\ InitUIVars
              /\ InitUtilVars

SpecConn == InitConn /\ [][NextConn]_vars

\* AppProvider starts from loadState(): the defaults and what was stored
InitStoreLoaded ==
  /\ state = [initialState EXCEPT !.favorites = <<StoredFavorite>>]
  /\ nextId = 1
  /\ appendLog = <<>>
  /\ onlyAppends = TRUE

\* every tab is mounted as one of the two versions of the component
InitTabVars ==
  /\ connTest = [pc |-> "idle"]
  /\ \E component \in [Tabs -> Components] :
       tabs = [t \in Tabs |-> [component |-> component[t],
                              isExecuting |-> FALSE, inFlight |-> 0,
                              transcript |-> 1]]

InitTabs == InitStoreLoaded /\ InitExecVars /\ InitTermVars /\ InitWSVars /\ InitTabVars
              /\ InitUtilVars

SpecTabs == InitTabs /\ [][NextTabs]_vars

----------------------------------------------------------------------------
(* C3: each ADD_HISTORY_ITEM puts the new item at the head of state.history,
   keeps the earlier items behind it in their previous order and drops only
   the oldest items beyond settings.maxHistoryItems; hence, after n appends
   to an empty history under a fixed cap c, the history holds exactly the
   min(n, c) most recently appended items, most recent first. *)
C3_AppendStep ==
  ADD_HISTORY_ITEM =>
    LET cap == state.settings.maxHistoryItems
        new == state'.history
        old == state.history IN
      /\ Len(new) = Min(Len(old) + 1, cap)
      /\ new[1].id = nextId
      /\ \A i \in 2..Len(new) : new[i] = old[i - 1]

C3_RecentFirst ==
  onlyAppends =>
    LET n == Len(appendLog)
        c == state.settings.maxHistoryItems IN
      /\ Len(state.history) = Min(n, c)
      /\ \A i \in 1..Len(state.history) : state.history[i].id = appendLog[n + 1 - i]

C3_HistoryNewestFirstCapped == [][C3_AppendStep]_vars /\ []C3_RecentFirst

\* Witness: more items were appended than the cap holds, so one was evicted.
C3_Witness ==
  /\ onlyAppends
  /\ Len(appendLog) > state.settings.maxHistoryItems
  /\ Len(state.history) >= 2


----------------------------------------------------------------------------
(* Claims about executeCommand, checked under SpecExec *)

Called == pc # "idle"

TransportFailed == outcome # None /\ ~outcome.ok

(* C1: for every ParsedCommand with valid = false handed to executeCommand,
   with or without a function schema, no transport call is issued and the
   only outcome is a result that carries the command's error. *)
C1_InvalidCommandNotExecuted ==
  (Called /\ ~input.command.valid) =>
    /\ calls = <<>>
    /\ pc = "returned"
    /\ ret.result = [error |-> input.command.error]

(* C2: executeCommand never throws; every failure raised while validating the
   command or calling the transport becomes result.error of the returned
   value. *)
C2_NeverThrows ==
  /\ pc # "threw"
  /\ (pc = "returned" /\ TransportFailed) => "error" \in DOMAIN ret.result

(* C4: every return of executeCommand includes a populated historyItem: the
   canonical command string, the parsedCommand, favorite = false, a duration
   >= 0 and response equal to the returned result; after a transport failure
   that response carries the error. *)
C4_HistoryItemPopulated ==
  pc = "returned" =>
    /\ "historyItem" \in DOMAIN ret
    /\ LET h == ret.historyItem IN
         /\ h.command = formatCommandString(command)
         /\ h.command # ""
         /\ h.parsedCommand = command
         /\ \A f \in DOMAIN input.command \ {"valid", "error"} :
              h.parsedCommand[f] = input.command[f]
         /\ h.favorite = FALSE
         /\ "duration" \in DOMAIN h
         /\ h.duration >= 0
         /\ h.response = ret.result
         /\ TransportFailed =>
              /\ "error" \in DOMAIN h.response
              /\ h.response.error # <<>>

\* Witness: a transport failure was recorded, some time after the call began.
C4_Witness ==
  /\ pc = "returned"
  /\ TransportFailed
  /\ ret.historyItem.duration > 0
  /\ ret.historyItem.response.error = <<"Network Error">>

\* the command was given with a schema and its parameters fail validateParameters
FailsValidation ==
  /\ Called
  /\ input.functionSchema.present
  /\ HasParameters(input.command)
  /\ LET v == validateParameters(input.command.parameters,
                                 input.functionSchema.def.parameters) IN
       ~v.threw /\ ~v.valid

ValidatorErrors ==
  validateParameters(input.command.parameters,
                     input.functionSchema.def.parameters).errors

(* C5: when executeCommand is given a function schema and a command whose
   parameters fail validateParameters, it returns before any transport call
   is issued, the surfaced error contains every validator error string, joined
   with '; ', and the command object passed in is not mutated. *)
C5_ValidationFailureTerminal ==
  FailsValidation =>
    /\ pc = "returned"
    /\ calls = <<>>
    /\ "error" \in DOMAIN ret.result
    /\ \A i \in 1..Len(ValidatorErrors) : IsInfix(ValidatorErrors[i], ret.result.error)
    /\ Count(ret.result.error, "; ") = Len(ValidatorErrors) - 1
    /\ argCommand = input.command
    /\ input.command.valid

\* Witness: a validation failure with two violations was surfaced.
C5_Witness ==
  /\ FailsValidation
  /\ pc = "returned"
  /\ Len(ValidatorErrors) >= 2

(* C6: executing connect{url, apiKey} reconfigures the transport to the
   supplied values before the connectivity test is issued, so the probe of
   that connect command is sent to the supplied url with the supplied key and
   never to the previously configured target. *)
C6_ConnectProbesSuppliedTarget ==
  \A i \in 1..Len(calls) :
    calls[i].op = "testConnection" =>
      /\ calls[i].baseUrl = command.parameters.props.url.s
      /\ calls[i].apiKey = command.parameters.props.apiKey.s

(* C7: when connect{url, apiKey} is executed and testConnection resolves
   false, nothing is thrown, the result carries an error message that names
   url, and ConnectionSettings.connected is false afterwards.  The result is
   executeCommand's result.error on the executor's path and the error of the
   terminal's item on the paths of the two terminal handlers. *)
C7_FailedConnectReported ==
  /\ pc # "threw"
  /\ (pc = "returned" /\ command.type = "connect"
        /\ outcome = [ok |-> TRUE, value |-> FALSE]) =>
       /\ "error" \in DOMAIN ret.result
       /\ IsInfix(<<command.parameters.props.url.s>>, ret.result.error)
       /\ ~state.connection.connected
  /\ (term.pc = "done" /\ ~term.success) =>
       /\ "error" \in DOMAIN term.item
       /\ IsInfix(<<term.url>>, term.item.error)
       /\ ~state.connection.connected

(* C8: the WebSocket client schedules a reconnect only in response to a close
   event with wasClean = false, and after an explicit disconnect() no
   reconnect is attempted until connect() is called again: no reconnect timer
   is pending and no socket is opened, whatever the order of disconnect,
   timer expiry and late close events. *)
C8_NoReconnectAfterDisconnect ==
  /\ ("scheduled" \in DOMAIN wsEvent /\ wsEvent.scheduled) =>
       (wsEvent.op = "close" /\ ~wsEvent.wasClean)
  /\ explicitlyDisconnected =>
       /\ ws.reconnectTimeout # "pending"
       /\ ws.orphanTimers = 0
       /\ ws.socket = "null"

(* C9: reconnection follows a capped exponential backoff: at most
   maxReconnectAttempts (5) consecutive automatic attempts happen without a
   successful open in between, the first delay is the base delay and each
   later delay is double the previous one, no delay exceeds the 30000 ms
   ceiling, and a successful open resets the attempt counter to 0. *)
C9_CappedExponentialBackoff ==
  /\ autoAttempts <= maxReconnectAttempts
  /\ \A i \in 1..Len(delays) :
       /\ delays[i] <= MaxDelay
       /\ delays[i] = IF i = 1 THEN BaseDelay ELSE Min(2 * delays[i - 1], MaxDelay)
  /\ wsEvent.op = "open" => ws.reconnectAttempts = 0

(* C10: for both streaming variants, stream_function and stream_tool,
   executeCommand performs no transport call and returns a result with
   streaming = true that carries the target name and the parameters of the
   command. *)
C10_StreamHandsOff ==
  (/\ pc = "returned"
   /\ input.command.type \in {"stream_function", "stream_tool"}
   /\ input.command.valid
   /\ ~FailsValidation) =>
    /\ calls = <<>>
    /\ "streaming" \in DOMAIN ret.result
    /\ ret.result.streaming = TRUE
    /\ "name" \in DOMAIN ret.result
    /\ ret.result.name = input.command.functionName
    /\ "parameters" \in DOMAIN ret.result
    /\ ret.result.parameters = input.command.parameters

\* the returned result carries an error
Failed == pc = "returned" /\ "error" \in DOMAIN ret.result

\* the awaited transport call settles in this step
C11_Settles == pc = "awaiting" /\ outcome' # None

C11_CompletesWithoutRetry ==
  C11_Settles => (pc' = "returned" /\ calls' = calls)

C11_OneOutcome ==
  /\ pc \in {"idle", "awaiting", "returned"}
  /\ Len(calls) <= 1
  /\ pc = "awaiting" => Len(calls) = 1
  /\ (pc = "returned" /\ TransportFailed) => Failed

(* C11: each executeCommand invocation moves from pending to exactly one of
   succeeded (a result without error) or failed (result.error set), completes
   as soon as its transport call resolves or rejects, and issues at most one
   transport call: a failed call is never retried by the executor. *)
C11_PendingThenOneOutcome == [][C11_CompletesWithoutRetry]_vars /\ []C11_OneOutcome

(* C12: if a transport call fails after a protocol step has been started for
   it, the protocolStep returned by executeCommand has type 'error' and its
   data contains the error message; a failed transport call never yields a
   protocolStep still tagged 'request'.  The step of a call counts as started
   once the call has been issued. *)
C12_FailedCallStepTaggedError ==
  (pc = "returned" /\ TransportFailed) =>
    /\ "protocolStep" \in DOMAIN ret
    /\ ret.protocolStep.type = "error"
    /\ "error" \in DOMAIN ret.protocolStep.data
    /\ ret.protocolStep.data.error = ret.result.error

(* C13: executing help, clear or history performs no transport call and
   returns no protocol step. *)
C13_LocalCommandsStayLocal ==
  (Called /\ input.command.type \in {"help", "clear", "history"}) =>
    /\ calls = <<>>
    /\ pc = "returned"
    /\ "protocolStep" \notin DOMAIN ret

\* Witness: the history command has returned its message.
C13_Witness ==
  /\ pc = "returned"
  /\ input.command.type = "history"
  /\ ret.result = [message |-> <<"Command history">>]
  /\ calls = <<>>

----------------------------------------------------------------------------
(* Claims about the favorites, checked under SpecFav *)

\* the step dispatches TOGGLE_FAVORITE with payload id
TogglesId(id) ==
  state' = appReducer(state, [type |-> "TOGGLE_FAVORITE", payload |-> id])

\* what TOGGLE_FAVORITE(id) is to do to the state
C15_Effect(id) ==
  /\ Len(state'.history) = Len(state.history)
  /\ \A i \in 1..Len(state.history) :
       /\ state'.history[i].id = state.history[i].id
       /\ state'.history[i].favorite =
            IF state.history[i].id = id THEN ~state.history[i].favorite
            ELSE state.history[i].favorite
       /\ DOMAIN state'.history[i] = DOMAIN state.history[i]
  /\ state'.favorites = state.favorites
  /\ state'.connection = state.connection
  /\ state'.settings = state.settings
  /\ state'.protocol = state.protocol
  /\ (\A i \in 1..Len(state.history) : state.history[i].id # id) => state' = state

(* C15: TOGGLE_FAVORITE(id) flips the favorite flag of exactly the history
   entries whose id equals id and changes nothing else: length, order and the
   other fields of the history, and the favorites list, stay as they were;
   when no history entry has that id the state is unchanged. *)
C15_ToggleFlipsOnlyTheMatch ==
  [][\A id \in 1..MaxItems : TogglesId(id) => C15_Effect(id)]_vars

\* Witness: of two history entries one has been flipped next to a favorite in
\* the favorites list.
C15_Witness ==
  /\ Len(state.history) >= 2
  /\ state.history[1].favorite
  /\ ~state.history[2].favorite
  /\ state.favorites # <<>>

(* C16: each addFavorite call adds one new FavoriteCommand whose identifier
   differs from the id of every favorite already in the store, so the
   favorite ids are pairwise distinct and removeFavorite(id) deletes exactly
   one favorite. *)
C16_FavoriteIdsFresh ==
  \A i, j \in 1..Len(state.favorites) :
    state.favorites[i].id = state.favorites[j].id => i = j

----------------------------------------------------------------------------
(* Claims about the Connection State Manager, checked under SpecConn *)

\* the step in which AppProvider.testConnection resolves
C17_Resolves == connTest.pc = "probing" /\ connTest'.pc = "resolved"

C17_Effect ==
  /\ connTest'.ret \in BOOLEAN
  /\ connTest'.ret = connTest'.probe.ok
  /\ state'.connection.connected = connTest'.ret
  /\ ~connTest'.ret =>
       /\ ~state'.connection.connected
       /\ state'.connection.error \notin {NoError, ""}
  /\ ~state'.isLoading

(* C17: AppProvider.testConnection never throws to its caller: it always
   resolves to a boolean; when the probe returns false or throws,
   connection.connected is false and connection.error is a non-empty string
   afterwards, and isLoading is false again once it has resolved. *)
C17_TestConnectionResolves ==
  /\ [][C17_Resolves => C17_Effect]_vars
  /\ [](connTest.pc \in {"idle", "probing", "resolved"})

\* Witness: the probe's request was rejected and the test resolved to false
\* for a connection that had been marked connected.
C17_Witness ==
  /\ connTest.pc = "resolved"
  /\ ~connTest.probe.ok
  /\ connTest.ret = FALSE
  /\ state.connection.error = "Failed to connect to the server"
  /\ state.connection.serverUrl = "u1"

\* the step dispatches SET_CONNECTION with payload p
SetsConnection(p) ==
  state' = appReducer(state, [type |-> "SET_CONNECTION", payload |-> p])

\* only the fields of p are overwritten
C18_Merged(p) ==
  /\ \A f \in DOMAIN state.connection :
       state'.connection[f] = IF f \in DOMAIN p THEN p[f] ELSE state.connection[f]
  /\ DOMAIN state'.connection = DOMAIN state.connection

\* what updateConnection(serverUrl, apiKey) is to leave alone
C18_Kept(serverUrl, apiKey) ==
  /\ serverUrl = Undefined => state'.connection.serverUrl = state.connection.serverUrl
  /\ apiKey = Undefined => state'.connection.apiKey = state.connection.apiKey
  /\ state'.connection.error = state.connection.error

(* C18: SET_CONNECTION, also when issued through updateConnection, merges:
   only the fields supplied are overwritten and every ConnectionSettings field
   that was not supplied keeps its previous value; updating only the apiKey
   leaves serverUrl unchanged and updating only the serverUrl leaves apiKey
   unchanged. *)
C18_SetConnectionMerges ==
  [][/\ \A p \in ConnectionPayloads : SetsConnection(p) => C18_Merged(p)
     /\ \A u \in Urls \cup {Undefined}, k \in Keys \cup {Undefined} :
          updateConnection(u, k) => C18_Kept(u, k)]_vars

----------------------------------------------------------------------------
(* Claims about the terminal tabs, checked under SpecTabs *)

\* the step executes the clear command, in any of its three implementations
ExecutesClear ==
  \E t \in Tabs :
    \/ ExecuteCommandStringOf(t, "clear")
    \/ HandleCommandDispatchingOf(t, "clear")
    \/ HandleCommandOf(t, "clear")

(* C14: executing the clear command leaves the History Store (state.history)
   unchanged; it only yields a confirmation and resets the display-local
   transcript, and the History Store is emptied only by the explicit
   clear-history action. *)
C14_ClearLeavesHistory ==
  [][ExecutesClear => state'.history = state.history]_vars

\* the step in which the transport call of a tab's command completes
TransportCompletes ==
  \E t \in Tabs : tabs'[t].inFlight < tabs[t].inFlight

\* the step appends exactly one item to the History Store
AppendsOne ==
  /\ state'.history # <<>>
  /\ \A i \in 1..Len(state.history) : state.history[i].id # state'.history[1].id
  /\ \A i \in 2..Len(state'.history) : state'.history[i] = state.history[i - 1]

(* C19: for each executed command exactly one CommandHistoryItem is appended
   to the History Store, and only after the command's transport call has
   completed, so that every stored item carries the command's response and
   duration. *)
C19_AppendedAfterTransport ==
  /\ [][TransportCompletes => AppendsOne]_vars
  /\ [][state'.history # state.history /\ state'.history # <<>>
          => TransportCompletes]_vars
  /\ [](\A i \in 1..Len(state.history) :
          {"response", "duration"} \subseteq DOMAIN state.history[i])

\* a tab's handleCommand appends: the item is stored once, at the head, the
\* older items follow in their order within the cap, favorites are untouched
C20_AppendStep ==
  \A t \in Tabs, c \in TabCommands :
    HandleCommandDispatchingOf(t, c) =>
      LET cap == state.settings.maxHistoryItems
          new == state'.history
          old == state.history IN
        /\ Len(new) = Min(Len(old) + 1, cap)
        /\ new[1].id = nextId
        /\ Cardinality({i \in 1..Len(new) : new[i].id = nextId}) = 1
        /\ \A i \in 2..Len(new) : new[i] = old[i - 1]
        /\ state'.favorites = state.favorites

\* no append is lost or duplicated: the history is the appends made since the
\* last clear, newest first, cut at the cap
C20_NoneLostNoneDuplicated ==
  LET n == Len(appendLog)
      c == state.settings.maxHistoryItems IN
    /\ Len(state.history) = Min(n, c)
    /\ \A i \in 1..Len(state.history) : state.history[i].id = appendLog[n + 1 - i]
    /\ \A i, j \in 1..Len(state.history) :
         state.history[i].id = state.history[j].id => i = j
    /\ state.favorites = <<StoredFavorite>>

(* C20: when commands of several terminal tabs execute concurrently and their
   completions and store mutations interleave in any order, every history
   append takes effect exactly once (none lost, none duplicated), favorites
   are unaffected by history appends, and the history stays newest-first
   within the cap. *)
C20_TabsDoNotCorruptStore ==
  [][C20_AppendStep]_vars /\ []C20_NoneLostNoneDuplicated

\* Witness: two tabs are both waiting for their transport call, each has
\* appended, and more items were appended than the cap holds.
C20_Witness ==
  /\ \E t1, t2 \in Tabs :
       /\ t1 # t2
       /\ tabs[t1].component = "CommandInput.tsx" /\ tabs[t1].inFlight = 1
       /\ tabs[t2].component = "CommandInput.tsx" /\ tabs[t2].inFlight = 1
  /\ Len(appendLog) > state.settings.maxHistoryItems
  /\ Len(state.history) = state.settings.maxHistoryItems
  /\ state.favorites # <<>>

----------------------------------------------------------------------------
(* Persistence (saveState), checked under SpecStore *)

\* Array.prototype.slice(-n): the last n elements; slice(-0) is slice(0)
SliceLast(s, n) ==
  IF n = 0 \/ n >= Len(s) THEN s
  ELSE [i \in 1..n |-> s[Len(s) - n + i]]

\* JSON.stringify leaves out the properties whose value is undefined
WithoutUndefined(rec) ==
  [f \in {g \in DOMAIN rec : rec[g] # Undefined} |-> rec[f]]

\* saveState(state): what is written to localStorage['mcp-client-state']
saveState(st) ==
  [ connection |-> WithoutUndefined([serverUrl |-> st.connection.serverUrl,
                                     apiKey |-> st.connection.apiKey]),
    settings |-> st.settings,
    history |-> SliceLast(st.history, st.settings.maxHistoryItems),
    favorites |-> st.favorites ]

(* C21: after every state mutation the persisted snapshot is the bounded
   projection of the state: connection {serverUrl, apiKey} only, the settings,
   all favorites, and the history capped at maxHistoryItems, holding the same
   most recent entries in the same order as the History Store keeps under
   that cap. *)
C21_SnapshotIsProjection ==
  LET snapshot == saveState(state) IN
    /\ DOMAIN snapshot = {"connection", "settings", "history", "favorites"}
    /\ snapshot.connection = [serverUrl |-> state.connection.serverUrl,
                              apiKey |-> state.connection.apiKey]
    /\ snapshot.settings = state.settings
    /\ snapshot.favorites = state.favorites
    /\ snapshot.history = SliceTo(state.history, state.settings.maxHistoryItems)

----------------------------------------------------------------------------
(* parseCommand (utils/commandParser.ts) and the two formatters of the
   history item's command string *)

\* tokens matching [a-zA-Z0-9._]+
NameTokens == Names \cup {"tool"}

\* texts that are valid JSON but not the output of JSON.stringify: white
\* space between the tokens, here a line feed
MultilineJson == {"{\n}"}

MalformedJson == {"{a:1}", "{"}

\* what may follow the name in a command line
Blobs ==
  { Stringify(v) : v \in ParamValues }
  \cup MultilineJson
  \cup MalformedJson
  \cup { n \o " " \o Stringify(v) : n \in Names, v \in ParamValues }

\* `.` matches any character except a line terminator
DotPlus(text) == text # "" /\ text \notin MultilineJson

\* JSON.parse(text): [threw |-> TRUE] on a SyntaxError
JSONParse(text) ==
  IF \E v \in ParamValues : Stringify(v) = text
  THEN [threw |-> FALSE, value |-> CHOOSE v \in ParamValues : Stringify(v) = text]
  ELSE IF text \in MultilineJson THEN [threw |-> FALSE, value |-> EmptyObject]
  ELSE [threw |-> TRUE]

\* command.match(/^<keyword>\s+([a-zA-Z0-9._]+)\s+(.+)$/i): the set of the
\* captures <<name, rest>>, empty when the text does not match
Match(keyword, text) ==
  { c \in NameTokens \X Blobs :
      text = keyword \o " " \o c[1] \o " " \o c[2] /\ DotPlus(c[2]) }

\* command.match(/^connect\s+([^\s]+)\s+([^\s]+)$/i)
ConnectMatch(text) ==
  { c \in Urls \X Keys : text = "connect " \o c[1] \o " " \o c[2] }

\* command.match(/^function\s+get\s+([a-zA-Z0-9._]+)$/i)
FunctionGetMatch(text) ==
  { n \in NameTokens : text = "function get " \o n }

\* String.prototype.trim on the texts of the model
Trim(text) ==
  CASE text = "function get " -> "function get"
    [] text = "help " -> "help"
    [] OTHER -> text

Unrecognized(text) ==
  [type |-> "help", valid |-> FALSE,
   error |-> <<"Unrecognized command: \"", text,
               "\". Type \"help\" for a list of commands.">>]

\* the try/catch around JSON.parse of one of the three parameter commands
WithJson(type, capture) ==
  LET parsed == JSONParse(capture[2]) IN
    IF parsed.threw
    THEN [type |-> type, functionName |-> capture[1], valid |-> FALSE,
          error |-> InvalidJson]
    ELSE [type |-> type, functionName |-> capture[1],
          parameters |-> parsed.value, valid |-> TRUE]

parseCommand(commandString) ==
  LET trimmed == Trim(commandString) IN
    IF trimmed = ""
    THEN [type |-> "help", valid |-> FALSE, error |-> <<"Command cannot be empty">>]
    ELSE IF trimmed \in {"help", "clear", "history"}
    THEN [type |-> trimmed, valid |-> TRUE]
    ELSE IF ConnectMatch(trimmed) # {}
    THEN LET c == CHOOSE c \in ConnectMatch(trimmed) : TRUE IN
           [type |-> "connect", valid |-> TRUE,
            parameters |-> ConnectParams(c[1], c[2])]
    ELSE IF trimmed \in {"functions list", "list functions"}
    THEN [type |-> "functions_list", valid |-> TRUE]
    ELSE IF trimmed \in {"tools list", "list tools"}
    THEN [type |-> "tools_list", valid |-> TRUE]
    ELSE IF FunctionGetMatch(trimmed) # {}
    THEN [type |-> "function_get", valid |-> TRUE,
          functionName |-> CHOOSE n \in FunctionGetMatch(trimmed) : TRUE]
    ELSE IF Match("call", trimmed) # {}
    THEN WithJson("call_function", CHOOSE c \in Match("call", trimmed) : TRUE)
    ELSE IF Match("tool", trimmed) # {}
    THEN WithJson("call_tool", CHOOSE c \in Match("tool", trimmed) : TRUE)
    ELSE IF Match("stream", trimmed) # {}
    THEN WithJson("stream_function", CHOOSE c \in Match("stream", trimmed) : TRUE)
    ELSE IF trimmed = "execute \"hi\""
    THEN [type |-> "execute", text |-> "hi", valid |-> TRUE]
    ELSE Unrecognized(trimmed)

\* JSON.stringify(command.parameters) inside a template literal
StringifyOrUndefined(cmd) ==
  IF "parameters" \in DOMAIN cmd THEN Stringify(cmd.parameters) ELSE "undefined"

NameOrUndefined(cmd) ==
  IF "functionName" \in DOMAIN cmd THEN cmd.functionName ELSE "undefined"

\* part_004, createHistoryItem: the switch that builds commandString
commandString(cmd) ==
  CASE cmd.type = "functions_list" -> "functions list"
    [] cmd.type = "function_get" -> "function get " \o NameOrUndefined(cmd)
    [] cmd.type = "call_function" ->
         "call " \o NameOrUndefined(cmd) \o " " \o StringifyOrUndefined(cmd)
    [] cmd.type = "call_tool" ->
         "tool " \o NameOrUndefined(cmd) \o " " \o StringifyOrUndefined(cmd)
    [] cmd.type = "execute" ->
         "execute \"" \o (IF "text" \in DOMAIN cmd THEN cmd.text ELSE "undefined") \o "\""
    [] cmd.type = "stream_function" ->
         "stream " \o NameOrUndefined(cmd) \o " " \o StringifyOrUndefined(cmd)
    [] cmd.type = "stream_tool" ->
         "stream tool " \o NameOrUndefined(cmd) \o " " \o StringifyOrUndefined(cmd)
    [] OTHER -> cmd.type

Formatters == {"formatCommandString", "createHistoryItem"}

Formatted(formatter, cmd) ==
  IF formatter = "formatCommandString" THEN formatCommandString(cmd)
  ELSE commandString(cmd)

\* the command lines typed by the model's user
CommandTexts ==
  {"", "help", "help ", "clear", "history", "functions list", "list functions",
   "tools list", "list tools", "execute \"hi\"", "function get ", "bogus"}
  \cup { "connect " \o u \o " " \o k : u \in Urls, k \in Keys }
  \cup { "function get " \o n : n \in NameTokens }
  \cup { kw \o " " \o n \o " " \o b :
           kw \in {"call", "tool", "stream"}, n \in NameTokens, b \in Blobs }

\* the valid commands of the variants that carry a name and parameters
ParameterCommands ==
  { c \in Commands : /\ c.type \in WithParameters
                     /\ c.valid
                     /\ {"functionName", "parameters"} \subseteq DOMAIN c }

\* parseCommand(text) is called
ParseCommand ==
  \E text \in CommandTexts :
    /\ parser.pc = "idle"
    /\ parser' = [pc |-> "parsed", text |-> text, result |-> parseCommand(text)]
    /\ UNCHANGED <<varsStore, varsExec, varsTerm, varsWS, varsConn, varsTabs, hooks>>

\* a history item's command string is built for a command
FormatCommand ==
  \E cmd \in ParameterCommands, formatter \in Formatters :
    /\ parser.pc = "idle"
    /\ parser' = [pc |-> "formatted", formatter |-> formatter, cmd |-> cmd,
                  text |-> Formatted(formatter, cmd)]
    /\ UNCHANGED <<varsStore, varsExec, varsTerm, varsWS, varsConn, varsTabs, hooks>>

\* the stored command string is parsed again
ParseFormatted ==
  /\ parser.pc = "formatted"
  /\ parser' = [pc |-> "reparsed", formatter |-> parser.formatter,
                cmd |-> parser.cmd, text |-> parser.text,
                result |-> parseCommand(parser.text)]
  /\ UNCHANGED <<varsStore, varsExec, varsTerm, varsWS, varsConn, varsTabs, hooks>>

ParserIdle ==
  /\ parser.pc \in {"parsed", "reparsed"}
  /\ parser' = [pc |-> "idle"]
  /\ UNCHANGED <<varsStore, varsExec, varsTerm, varsWS, varsConn, varsTabs, hooks>>

NextParse ==
  \/ ParseCommand
  \/ FormatCommand
  \/ ParseFormatted
  \/ ParserIdle

InitParse == InitStoreFixed /\ InitExecVars /\ InitTermVars /\ InitWSVars /\ InitUIVars
              /\ InitUtilVars

SpecParse == InitParse /\ [][NextParse]_vars

(* C22: round trip.  For every valid ParsedCommand of a variant that carries
   parameters (call_function, call_tool, stream_function, stream_tool),
   formatting it to the command string stored in the history item and parsing
   that string with parseCommand yields an equivalent ParsedCommand: same
   type, same name, same parameters. *)
C22_FormatParseRoundTrip ==
  parser.pc = "reparsed" =>
    /\ parser.result.valid
    /\ parser.result.type = parser.cmd.type
    /\ "functionName" \in DOMAIN parser.result
    /\ parser.result.functionName = parser.cmd.functionName
    /\ "parameters" \in DOMAIN parser.result
    /\ parser.result.parameters = parser.cmd.parameters

\* the text is `<keyword> <name> <blob>` for one of the three keywords
OfTheForm(keyword, text, n, b) ==
  /\ n \in NameTokens
  /\ b \in Blobs
  /\ text = keyword \o " " \o n \o " " \o b

\* the blobs of the model that are valid JSON, and their values
ValidJson == { Stringify(v) : v \in ParamValues } \cup MultilineJson

KeywordType(keyword) ==
  CASE keyword = "call" -> "call_function"
    [] keyword = "tool" -> "call_tool"
    [] keyword = "stream" -> "stream_function"

C23_Case(keyword, n, b) ==
  LET r == parser.result IN
    /\ r.type = KeywordType(keyword)
    /\ r.functionName = n
    /\ IF b \in ValidJson
         THEN /\ r.valid
              /\ r.parameters = JSONParse(b).value
         ELSE /\ ~r.valid
              /\ r.error = InvalidJson
              /\ "parameters" \notin DOMAIN r

(* C23: for every input of the form 'call <name> <blob>' with name in
   [A-Za-z0-9._]+, parseCommand never throws: a blob that is valid JSON gives
   call_function with valid = true, functionName = name and the parsed JSON as
   parameters; a malformed blob gives call_function with valid = false, the
   name preserved and the fixed 'Invalid JSON parameters' message; the same
   holds for 'tool' (call_tool) and 'stream' (stream_function). *)
C23_ParameterCommandsParsed ==
  parser.pc = "parsed" =>
    \A keyword \in {"call", "tool", "stream"}, n \in NameTokens, b \in Blobs :
      OfTheForm(keyword, parser.text, n, b) => C23_Case(keyword, n, b)

----------------------------------------------------------------------------
(* validateParameters as a function of its own, checked under SpecValidate *)

\* {required: ["a"]}
SchemaRequiredA == [required |-> <<"a">>]

ParameterSchemas == {SchemaAN, SchemaBadPattern, SchemaUnion, SchemaRequiredA}

\* the values handed to the validator: objects over a and n, and what
\* JSON.parse returns besides objects
ValidatedValues ==
  { Obj(p) : p \in UNION { [D -> {Num(10), Num(5), Str("x", 1), Str("xyz", 3),
                                   JsonNull}] : D \in SUBSET {"a", "n"} } }
  \cup {Arr(0), Num(10), Num(0)}

\* validateParameters(values, schema) is called
ValidateParameters ==
  \E values \in ValidatedValues, schema \in ParameterSchemas :
    /\ parser.pc = "idle"
    /\ parser' = [pc |-> "validated", values |-> values, schema |-> schema,
                  result |-> validateParameters(values, schema)]
    /\ UNCHANGED <<varsStore, varsExec, varsTerm, varsWS, varsConn, varsTabs, hooks>>

ValidatorIdle ==
  /\ parser.pc = "validated"
  /\ parser' = [pc |-> "idle"]
  /\ UNCHANGED <<varsStore, varsExec, varsTerm, varsWS, varsConn, varsTabs, hooks>>

NextValidate ==
  \/ ValidateParameters
  \/ ValidatorIdle

InitValidate == InitStoreFixed /\ InitExecVars /\ InitTermVars /\ InitWSVars /\ InitUIVars
                  /\ InitUtilVars

SpecValidate == InitValidate /\ [][NextValidate]_vars

\* name is a property of values
Present(name, values) == values.t = "object" /\ name \in DOMAIN values.props

\* the value is of the declared JSON Schema type
Conforms(type, value) ==
  IF type = "integer" THEN value.t = "number" /\ value.h % 2 = 0
  ELSE value.t = type

\* how many of the errors start with the two fragments given
ErrorsAbout(errors, kind, name) ==
  Cardinality({i \in 1..Len(errors) : errors[i][1] = kind /\ errors[i][2] = name})

(* C24: validateParameters collects every violation independently and returns
   valid = true iff no error was collected: one 'missing required parameter'
   error for each name in schema.required that is absent from values, and one
   type error for each property present in values that matches none of its
   declared types, where integer rejects a number with a fractional part. *)
C24_EveryViolationCollected ==
  parser.pc = "validated" =>
    LET r == parser.result
        values == parser.values
        required == SchemaRequired(parser.schema)
        properties == SchemaProperties(parser.schema) IN
      /\ ~r.threw
      /\ r.valid <=> r.errors = <<>>
      /\ \A i \in 1..Len(required) :
           ErrorsAbout(r.errors, "Missing required parameter: ", required[i])
             = IF Present(required[i], values) THEN 0 ELSE 1
      /\ \A i \in 1..Len(properties) :
           LET name == properties[i].name
               types == properties[i].schema.type.ts IN
             ErrorsAbout(r.errors, "Invalid type for parameter ", name)
               = IF /\ Present(name, values)
                    /\ \A j \in 1..Len(types) : ~Conforms(types[j], values.props[name])
                 THEN 1 ELSE 0

----------------------------------------------------------------------------
(* The protocol timeline: the API hooks record their steps with
   ADD_PROTOCOL_STEP, ProtocolVisualizer groups them *)

\* calls the hooks issue in one behaviour
MaxCalls == 3

Endpoints == {"/api/functions/call", "/api/tools/call"}

\* the request steps recorded so far
Requests(steps) == {i \in 1..Len(steps) : steps[i].type = "request"}

\* pendingRequests[endpoint] = groupIndex
Put(pending, endpoint, groupIndex) ==
  [e \in DOMAIN pending \cup {endpoint} |->
     IF e = endpoint THEN groupIndex ELSE pending[e]]

\* delete pendingRequests[endpoint]
Delete(pending, endpoint) == [e \in DOMAIN pending \ {endpoint} |-> pending[e]]

\* the body of steps.forEach, from the i-th step on
RECURSIVE GroupFrom(_, _, _, _)
GroupFrom(steps, i, groups, pending) ==
  IF i > Len(steps) THEN groups
  ELSE
    LET step == steps[i] IN
      IF step.type = "request"
      THEN GroupFrom(steps, i + 1, Append(groups, <<step>>),
                     Put(pending, step.endpoint, Len(groups) + 1))
      ELSE IF step.type = "response" /\ step.endpoint \in DOMAIN pending
      THEN GroupFrom(steps, i + 1,
                     [groups EXCEPT ![pending[step.endpoint]] = Append(@, step)],
                     Delete(pending, step.endpoint))
      ELSE GroupFrom(steps, i + 1, Append(groups, <<step>>), pending)

groupProtocolSteps(steps) == GroupFrom(steps, 1, <<>>, <<>>)

\* useCallFunction / useCallTool: execute up to its await
HookRequest ==
  \E endpoint \in Endpoints :
    /\ Cardinality(Requests(state.protocol)) < MaxCalls
    /\ LET call == Cardinality(Requests(state.protocol)) + 1 IN
         /\ state' = appReducer(state, [type |-> "ADD_PROTOCOL_STEP",
                        payload |-> [call |-> call, type |-> "request",
                                     endpoint |-> endpoint]])
         /\ hooks' = hooks \cup {[call |-> call, endpoint |-> endpoint]}
    /\ UNCHANGED <<nextId, appendLog, onlyAppends, parser>>
    /\ UNCHANGED <<varsExec, varsTerm, varsWS, varsConn, varsTabs>>

\* the awaited transport call has settled: the response or the error step
HookSettles ==
  \E h \in hooks, type \in {"response", "error"} :
    /\ state' = appReducer(state, [type |-> "ADD_PROTOCOL_STEP",
                   payload |-> [call |-> h.call, type |-> type,
                                endpoint |-> h.endpoint]])
    /\ hooks' = hooks \ {h}
    /\ UNCHANGED <<nextId, appendLog, onlyAppends, parser>>
    /\ UNCHANGED <<varsExec, varsTerm, varsWS, varsConn, varsTabs>>

NextProtocol ==
  \/ HookRequest
  \/ HookSettles

InitProtocol == InitStoreFixed /\ InitExecVars /\ InitTermVars /\ InitWSVars /\ InitUIVars
                  /\ InitUtilVars

SpecProtocol == InitProtocol /\ [][NextProtocol]_vars

\* the groups a step is a member of
GroupsOf(groups, step) ==
  {g \in 1..Len(groups) : \E j \in 1..Len(groups[g]) : groups[g][j] = step}

\* where a step was recorded
Position(steps, step) == CHOOSE i \in 1..Len(steps) : steps[i] = step

(* C25: in the protocol visualization every response step is placed in the
   same group as the request step it answers, for every order in which
   requests and responses are recorded, including several requests to the
   same endpoint being in flight at once; every step appears in exactly one
   group and groups keep recording order. *)
C25_ResponseGroupedWithRequest ==
  LET steps == state.protocol
      groups == groupProtocolSteps(steps) IN
    /\ \A i \in 1..Len(steps) :
         steps[i].type = "response" =>
           \E g \in GroupsOf(groups, steps[i]) :
             \E j \in 1..Len(groups[g]) :
               /\ groups[g][j].type = "request"
               /\ groups[g][j].call = steps[i].call
    /\ \A i \in 1..Len(steps) : Cardinality(GroupsOf(groups, steps[i])) = 1
    /\ \A g \in 1..Len(groups) :
         /\ Len(groups[g]) >= 1
         /\ \A j \in 2..Len(groups[g]) :
              Position(steps, groups[g][j - 1]) < Position(steps, groups[g][j])
         /\ g > 1 => Position(steps, groups[g - 1][1]) < Position(steps, groups[g][1])

\* a command of tab t starts in this step
Starts(t) ==
  \E c \in TabCommands : HandleCommandDispatchingOf(t, c) \/ HandleCommandOf(t, c)

(* C26: within one terminal instance at most one command is executing at any
   time: while a command is in flight (isExecuting) a further execute request
   is ignored, and isExecuting returns to false when the command finishes,
   whether it was invalid, succeeded or failed. *)
C26_OneCommandAtATime ==
  /\ [](\A t \in Tabs : tabs[t].inFlight <= 1)
  /\ [](\A t \in Tabs : tabs[t].isExecuting <=> tabs[t].inFlight = 1)
  /\ [][\A t \in Tabs : tabs[t].inFlight > 0 => ~Starts(t)]_vars

\* the reconnect timers are browser timers: one that is pending expires
SpecWSFair == InitWS /\ [][NextWS]_vars /\ WF_vars(WsTimerFires)

\* lines 594-606: an unclean close found attempts left and scheduled a
\* reconnect, and the caller's last call was not disconnect()
UncleanClose ==
  /\ wsEvent.op = "close"
  /\ ~wsEvent.wasClean
  /\ wsEvent.scheduled
  /\ ~explicitlyDisconnected

\* lines 604: an unclean close found reconnectAttempts at the maximum
Exhausted ==
  /\ wsEvent.op = "close"
  /\ ~wsEvent.wasClean
  /\ ~wsEvent.scheduled

\* nothing is left that would connect: no socket, no timer, state disconnected
Quiet ==
  /\ ws.socket = "null"
  /\ ws.reconnectTimeout # "pending"
  /\ ws.orphanTimers = 0
  /\ ~ws.connectionState.connected
  /\ ~ws.connectionState.connecting

\* connect(), disconnect() and updateConfig() are the caller's calls
CallerActs == wsEvent'.op \in {"connect", "disconnect", "updateConfig"}

\* lines 467-469: connect() constructs a socket, or the caller disconnects
EventuallyReconnects ==
  (UncleanClose /\ autoAttempts < MaxAuto)
    ~> (ws.socket = "CONNECTING" \/ explicitlyDisconnected)

StaysExhausted ==
  /\ [](Exhausted => Quiet)
  /\ [][Exhausted => (CallerActs \/ Quiet')]_vars

(* C27: after an unclean close with fewer than the maximum reconnect attempts
   used and no explicit disconnect, the client eventually makes a new
   connection attempt, provided that the timer fires; once the attempts are
   exhausted it makes no further attempt and remains disconnected with
   connecting = false. *)
C27_ReconnectsUntilExhausted ==
  /\ EventuallyReconnects
  /\ StaysExhausted

----------------------------------------------------------------------------
(* Export and import of history and favorites: exportImport.ts (exportData,
   importData) and ExportImport.handleFileChange of FunctionBrowser.tsx.  A
   file is the record JSON.parse returns for its text; numbers, booleans and
   strings of the entries survive JSON.stringify / JSON.parse unchanged. *)

\* exportData(history, favorites): Date.now() is positive, the clock of the
\* model starts at 0
exportData(history, favorites) ==
  LET data == [timestamp |-> now + 1, version |-> "1.0.0"]
      withHistory == IF Len(history) > 0 THEN With(data, "history", history)
                     ELSE data
  IN IF Len(favorites) > 0 THEN With(withHistory, "favorites", favorites)
     ELSE withHistory

\* importData: 'Invalid export file format' unless version and timestamp are truthy
Rejected(file) ==
  \/ "version" \notin DOMAIN file
  \/ "timestamp" \notin DOMAIN file
  \/ file.version = ""
  \/ file.timestamp = 0

\* importedData.history.forEach(item => dispatch ADD_HISTORY_ITEM)
RECURSIVE ImportHistory(_, _)
ImportHistory(st, items) ==
  IF items = <<>> THEN st
  ELSE ImportHistory(appReducer(st, [type |-> "ADD_HISTORY_ITEM",
                                     payload |-> Head(items)]),
                     Tail(items))

\* dispatch REMOVE_FAVORITE(favorite.id), then ADD_FAVORITE(favorite)
ImportFavorite(st, favorite) ==
  appReducer(appReducer(st, [type |-> "REMOVE_FAVORITE", payload |-> favorite.id]),
             [type |-> "ADD_FAVORITE", payload |-> favorite])

RECURSIVE ImportFavorites(_, _)
ImportFavorites(st, favorites) ==
  IF favorites = <<>> THEN st
  ELSE ImportFavorites(ImportFavorite(st, Head(favorites)), Tail(favorites))

\* handleFileChange after importData has settled
Imported(st, file) ==
  IF Rejected(file) THEN st
  ELSE LET h == IF "history" \in DOMAIN file
                THEN ImportHistory(st, file.history) ELSE st
       IN IF "favorites" \in DOMAIN file
          THEN ImportFavorites(h, file.favorites) ELSE h

\* files written by another session
ForeignHistories ==
  { <<>>, <<[id |-> 1, favorite |-> TRUE]>>,
    <<[id |-> 2, favorite |-> FALSE], [id |-> 1, favorite |-> TRUE]>> }

ForeignFavorites ==
  { <<[id |-> 1, name |-> "y"]>>,
    <<[id |-> 0, name |-> "y"], [id |-> 0, name |-> "x"]>> }

ForeignFiles ==
  {[timestamp |-> 1]}
    \cup {[timestamp |-> 1, version |-> "1.0.0", history |-> h] :
            h \in ForeignHistories}
    \cup {[timestamp |-> 1, version |-> "1.0.0", favorites |-> f] :
            f \in ForeignFavorites}
    \cup {[timestamp |-> 1, version |-> "1.0.0", history |-> h, favorites |-> f] :
            h \in ForeignHistories, f \in ForeignFavorites}

\* the files the user can pick: one of another session, or the one this
\* session would export now (handleExport: exportData(state.history, state.favorites))
Files(st) == ForeignFiles \cup {exportData(st.history, st.favorites)}

HandleFileChangeOf(file) ==
  /\ state' = Imported(state, file)
  /\ parser' = [pc |-> "imported", rejected |-> Rejected(file)]
  /\ UNCHANGED <<nextId, appendLog, onlyAppends, hooks>>
  /\ UNCHANGED <<varsExec, varsTerm, varsWS, varsConn, varsTabs>>

HandleFileChange == \E file \in Files(state) : HandleFileChangeOf(file)

NextImport ==
  \/ ADD_HISTORY_ITEM
  \/ addFavorite
  \/ HandleFileChange

InitImport == InitStoreFixed /\ InitExecVars /\ InitTermVars /\ InitWSVars /\ InitUIVars
              /\ InitUtilVars

SpecImport == InitImport /\ [][NextImport]_vars

\* the entries of a list of favorites that carry the id
WithId(favorites, id) == {i \in 1..Len(favorites) : favorites[i].id = id}

\* the history after the import is the imported list
HistoryReplaced(file) ==
  "history" \in DOMAIN file => state'.history = file.history

\* importing what was just exported changes nothing in the history
RoundTrip(file) ==
  file = exportData(state.history, state.favorites) =>
    state'.history = state.history

\* every imported favorite id is held once, by an imported favorite
FavoritesReplaced(file) ==
  "favorites" \in DOMAIN file =>
    \A k \in 1..Len(file.favorites) :
      LET id == file.favorites[k].id
          held == WithId(state'.favorites, id) IN
        /\ Cardinality(held) = 1
        /\ \A i \in held :
             \E j \in WithId(file.favorites, id) :
               state'.favorites[i] = file.favorites[j]

(* C28: importing an export file replaces the existing history with the
   imported history: afterwards state.history equals the imported list in the
   imported order, so exporting the history and importing the file again
   leaves the history unchanged; an imported favorite replaces an existing
   favorite with the same id and leaves no two favorites with that id. *)
C28_ImportReplaces ==
  [][\A file \in Files(state) :
       (HandleFileChangeOf(file) /\ ~Rejected(file)) =>
         /\ HistoryReplaced(file)
         /\ RoundTrip(file)
         /\ FavoritesReplaced(file)]_vars

----------------------------------------------------------------------------
(* The published connection state of WebSocketClient against its socket *)

\* lines 517-520: send(data) throws 'WebSocket is not connected'
sendThrows(w) == ~isConnected(w)

(* C29: in every reachable state of WebSocketClient connectionState.connected
   is true exactly when the client holds an open socket (isConnected()), for
   every interleaving of connect, disconnect, updateConfig and the open, close
   and error events of the current and of replaced sockets; hence send() never
   throws 'WebSocket is not connected' while the published state reports
   connected. *)
C29_ConnectedIffOpen ==
  /\ ws.connectionState.connected <=> isConnected(ws)
  /\ ws.connectionState.connected => ~sendThrows(ws)

----------------------------------------------------------------------------
(* Saving connection settings: ConnectionStatus.handleSaveSettings /
   handleTestConnection and ConnectionSettings.handleSubmit /
   handleTestConnection call AppProvider.updateConnection and
   AppProvider.testConnection; the probe is sent by the apiClient singleton,
   which AppProvider's effect reconfigures after the next render. *)

\* probes of AppProvider.testConnection awaited at once (the two settings
\* forms disable their buttons independently of each other)
MaxProbes == 2

\* the server and key a request of client c goes to
Target(c) == [serverUrl |-> c.baseUrl, apiKey |-> c.apiKey]

\* the settings the store holds
Stored(st) == [serverUrl |-> st.connection.serverUrl, apiKey |-> st.connection.apiKey]

\* part_005, lines 233-237: testConnection up to its await
ProbeSent == << [type |-> "SET_LOADING", payload |-> TRUE],
                [type |-> "CLEAR_CONNECTION_ERROR"] >>

\* part_005, lines 269-280, called with both form values
ConnectionUpdated(serverUrl, apiKey) ==
  << [type |-> "SET_CONNECTION",
      payload |-> [serverUrl |-> serverUrl, apiKey |-> apiKey,
                   connected |-> FALSE]] >>

\* ConnectionStatus.handleTestConnection without changes in the form, and
\* ConnectionSettings.handleTestConnection: testConnection()
HandleTestConnection ==
  /\ Len(connTest.probes) < MaxProbes
  /\ state' = Reduce(state, ProbeSent)
  /\ connTest' = [connTest EXCEPT !.probes = Append(@, Target(apiClient))]
  /\ UNCHANGED <<nextId, appendLog, onlyAppends, tabs>>
  /\ UNCHANGED <<varsExec, varsTerm, varsWS, varsUtil>>

\* ConnectionStatus.handleSaveSettings and ConnectionSettings.handleSubmit:
\* updateConnection(serverUrl, apiKey), then testConnection(), in one task;
\* the effect that reconfigures apiClient has not run when the probe is sent
HandleSaveSettings ==
  \E serverUrl \in Urls, apiKey \in Keys :
    /\ Len(connTest.probes) < MaxProbes
    /\ Stored(state) # [serverUrl |-> serverUrl, apiKey |-> apiKey]
    /\ state' = Reduce(state, ConnectionUpdated(serverUrl, apiKey) \o ProbeSent)
    /\ effectPending' = TRUE
    /\ connTest' = [connTest EXCEPT !.probes = Append(@, Target(apiClient))]
    /\ UNCHANGED <<nextId, appendLog, onlyAppends, tabs, term>>
    /\ UNCHANGED <<varsExec, varsWS, varsUtil>>

\* the sequence without its i-th element
RemoveAt(s, i) == SubSeq(s, 1, i - 1) \o SubSeq(s, i + 1, Len(s))

\* part_005, lines 237-252: the i-th probe in flight has resolved
ProbeSettlesOf(i, ok) ==
  /\ i \in 1..Len(connTest.probes)
  /\ state' = Reduce(state, AfterProbe(ok))
  /\ connTest' = [probes |-> RemoveAt(connTest.probes, i),
                  last |-> [against |-> connTest.probes[i], ok |-> ok]]
  /\ UNCHANGED <<nextId, appendLog, onlyAppends, tabs>>
  /\ UNCHANGED <<varsExec, varsTerm, varsWS, varsUtil>>

ProbeSettles == \E i \in 1..MaxProbes, ok \in BOOLEAN : ProbeSettlesOf(i, ok)

NextProbe ==
  \/ HandleTestConnection
  \/ HandleSaveSettings
  \/ ProbeSettles
  \/ AppProviderEffect

InitProbeVars ==
  /\ connTest = [probes |-> <<>>, last |-> None]
  /\ tabs = [t \in Tabs |-> [component |-> "CommandInput.tsx",
                              isExecuting |-> FALSE, inFlight |-> 0,
                              transcript |-> 1]]

InitProbe == InitStoreFixed /\ InitExecVars /\ InitTermVars /\ InitWSVars
             /\ InitProbeVars /\ InitUtilVars

SpecProbe == InitProbe /\ [][NextProbe]_vars

\* the probe that completed last succeeded against the stored settings
ProbedAsStored ==
  /\ connTest.last # None
  /\ connTest.last.ok
  /\ connTest.last.against = Stored(state)

\* the step changes the stored serverUrl or apiKey
SettingsChange == Stored(state') # Stored(state)

\* the step completes a probe that was sent to other settings than those stored
StaleProbeSettles ==
  \E i \in 1..Len(connTest.probes), ok \in BOOLEAN :
    /\ ProbeSettlesOf(i, ok)
    /\ connTest.probes[i] # Stored(state)

(* C30: connection.connected is true only if the most recently completed
   connectivity probe succeeded and was issued against the serverUrl and apiKey
   currently stored: changing the settings through updateConnection sets
   connected to false, and the result of a probe that was started before the
   change and resolves after it does not mark the new settings as connected. *)
C30_ConnectedMeansProbed ==
  /\ [](state.connection.connected => ProbedAsStored)
  /\ [][SettingsChange => ~state'.connection.connected]_vars
  /\ [][StaleProbeSettles => ~state'.connection.connected]_vars

====
